---- MODULE Spec2Model ----
(***************************************************************************)
(* A model of the clone detector's core: the Rabin-Karp rolling hash, the  *)
(* inverted hash index with sequential and parallel pair enumeration, the  *)
(* adjacent-clone merger, the size filter, the Type-1/Type-2 classifier    *)
(* and the parallel tokenization front end.                                *)
(***************************************************************************)
EXTENDS Integers, Sequences, FiniteSets, TLC

VARIABLES
    \* ---- RollingHash / HashSequence::compute_all (rolling_hash.cpp) ----
    window_size_,    \* RollingHash::window_size_
    base_power_,     \* RollingHash::base_power_  (BASE^(k-1) mod MOD)
    hash_,           \* RollingHash::hash_
    window_,         \* RollingHash::window_ (deque of the tokens in the window)
    token_hashes,    \* the input sequence fed to push / compute_all
    batch,           \* TRUE: HashSequence::compute_all, FALSE: a bare push loop
    rh_i,            \* loop index i of compute_all (tokens pushed so far)
    rh_result,       \* the (start_pos, hash) pairs emitted so far
    \* ---- HashIndex pair enumeration (hash_index.cpp) ----
    index_,          \* HashIndex::index_, as the sequence of its (hash, locations)
                     \* entries in the map's iteration order
    pool_size,       \* ThreadPool::size() of the pool handed to the parallel variant
    seq_done,        \* find_clone_pairs has returned
    seq_results,     \* what find_clone_pairs returned
    par_pc,          \* find_clone_pairs_parallel: "idle", "running", "done"
    chunk_pos,       \* per chunk task of parallel_for: the next index it will run
    thread_results,  \* find_clone_pairs_parallel::thread_results (the buckets)
    par_results,     \* what find_clone_pairs_parallel returned
    \* ---- SimilarityDetector (similarity_detector.cpp) ----
    files,           \* the input file list handed to tokenize_files
    config_,         \* SimilarityDetector::config_ (DetectorConfig)
    pc,              \* how far the analysis has got
    results,         \* tokenize_files::results of the parallel path
    file_paths_,     \* HashIndex::file_paths_: the path of every file id
    tokenized_files, \* AnalysisState::tokenized_files
    pairs,           \* find_clones::pairs
    \* ---- HashIndex::merge_adjacent_clones called on its own ----
    sort_ties,       \* what the build's std::sort does with equal keys
    merge_in,        \* the list of pairs handed to the first call
    merge_gap,       \* max_gap
    merge_pc,        \* number of calls made
    merged1,         \* what the first call returned
    merged2,         \* what the call on merged1 returned
    \* ---- CloneExtender called on its own (clone_extender.cpp) ----
    ext_cfg,         \* CloneExtender::config_
    ext_files,       \* the tokenized files handed to extend / extend_all
    ext_paths,       \* the index's file_paths_ (path of each file id)
    ext_seeds,       \* the seed pairs
    ext_pc,          \* "idle", "ready", "extended" (extend), "all" (extend_all)
    ext_out,         \* the pairs returned
    ext_reads,       \* the token indices read, per side: <<side, index>>
    \* ---- ThreadPool (thread_pool.hpp) ----
    stop_,           \* ThreadPool::stop_
    tasks_,          \* ThreadPool::tasks_, the queue, as the ids of its tasks
    active_tasks_,   \* ThreadPool::active_tasks_
    workers_,        \* per worker thread: where it is in worker_thread and its task
    submitted,       \* calls of submit made so far; call n is about task n
    enqueued,        \* tasks whose submit returned a future
    thrown,          \* tasks whose submit threw
    completed,       \* tasks whose task() has returned
    dtor_pc,         \* ~ThreadPool: "none", "joining", "returned"
    joined,          \* workers the destructor has joined
    left_at_stop,    \* tasks queued or running when stop_ was set
    \* ---- ThreadPool::parallel_for (thread_pool.hpp) ----
    pf_begin,        \* parallel_for's begin
    pf_end,          \* parallel_for's end
    pf_workers,      \* workers_.size()
    pf_pc,           \* "idle", "call", "submitting", "waiting", "returned"
    pf_t,            \* the loop variable t of the submitting loop
    pf_chunks,       \* per submitted chunk task: its next index i and its chunk_end
    pf_calls,        \* how many times f was invoked with each index
    \* ---- CppNormalizer::normalize (tokenizers/cpp_normalizer.cpp) ----
    nz_source,       \* the source text, a sequence of characters
    nz_state,        \* TokenizerState: pos, line, column, at_line_start
    current_line,    \* normalize's current_line
    line_has_code,   \* normalize's line_has_code
    line_has_comment, \* normalize's line_has_comment
    code_lines,      \* normalize's code_lines
    comment_lines,   \* normalize's comment_lines
    blank_lines,     \* normalize's blank_lines
    total_lines,     \* result.total_lines
    nz_pc,           \* "idle", "scanning", "returned"
    \* ---- CloneExtender::extend, loop iteration by loop iteration ----
    xs_pc,           \* "idle", "call", "backward", "forward", "rescoring",
                     \* "accepted", "rejected", "stopped"
    xs_pos_a,        \* pos_a of the loop that is running
    xs_pos_b,        \* pos_b of the loop that is running
    xs_extended,     \* extended of extend_backward or extend_forward
    xs_back_ext,     \* extend's back_ext
    xs_fwd_ext,      \* extend's fwd_ext
    xs_matches       \* matches of alignment_similarity

hashVars == <<window_size_, base_power_, hash_, window_, token_hashes, batch, rh_i, rh_result>>
pairVars == <<index_, pool_size, seq_done, seq_results, par_pc, chunk_pos, thread_results, par_results>>

pipeVars == <<files, config_, pc, results, file_paths_, tokenized_files, pairs>>
mergeVars == <<sort_ties, merge_in, merge_gap, merge_pc, merged1, merged2>>

extVars == <<ext_cfg, ext_files, ext_paths, ext_seeds, ext_pc, ext_out, ext_reads>>
tpVars == <<stop_, tasks_, active_tasks_, workers_, submitted, enqueued, thrown, completed,
           dtor_pc, joined, left_at_stop>>
pfVars == <<pf_begin, pf_end, pf_workers, pf_pc, pf_t, pf_chunks, pf_calls>>
nzVars == <<nz_source, nz_state, current_line, line_has_code, line_has_comment,
           code_lines, comment_lines, blank_lines, total_lines, nz_pc>>
xsVars == <<xs_pc, xs_pos_a, xs_pos_b, xs_extended, xs_back_ext, xs_fwd_ext, xs_matches>>
laterVars == <<pfVars, nzVars, xsVars>>
restVars == <<extVars, tpVars, laterVars>>

vars == <<hashVars, pairVars, pipeVars, mergeVars, restVars>>

\* ------------------------------------------------------------------------
\* Bounds of the model
\* ------------------------------------------------------------------------
MaxWindow == 3      \* window sizes 1..MaxWindow
MaxSeqLen == 4      \* token sequences of length 0..MaxSeqLen
MaxIndexLocs == 4   \* locations held by an index, over all its hashes
MaxPool == 3        \* worker pools of 1..MaxPool threads
MaxExtraItems == 1  \* work items beyond the parallel threshold
MaxTokFiles == 5    \* input lists of 1..MaxTokFiles files for tokenize_files
MaxMergePairs == 3  \* lists of 0..MaxMergePairs pairs handed to the merger
MaxMergeGap == 1    \* max_gap in 0..MaxMergeGap when the merger is called alone
MaxFiles == 4       \* input lists of 1..MaxFiles files for the whole analysis
MaxReadable == 2    \* of which at most MaxReadable can be tokenized
MaxThreads == 2     \* the analysis runs with pools of 1..MaxThreads threads
MaxExtTokens == 3   \* token arrays of 0..MaxExtTokens tokens when the extender is called alone
MaxSeedCount == 2   \* seeds with token_count in 0..MaxSeedCount on each side
MaxExtGap == 1      \* Config::max_gap in 0..MaxExtGap
MaxSeeds == 2       \* extend_all is handed 1..MaxSeeds seeds
FunctionLen == 8    \* tokens of the function the two-file inputs share
BlockLen == 4       \* a block copied inside one file has 2..BlockLen tokens
MaxASideShift == 6  \* the first of two merged pairs starts at token 0 or here in A
PairLen == 30       \* tokens on each side of the two pairs handed to the merger
BSideGap == 3       \* tokens between the B sides of the two pairs
MaxWorkers == 2     \* a ThreadPool of its own has 1..MaxWorkers threads
MaxTasks == 3       \* calls of submit made on it
SizeMod == 16       \* size_t counts modulo SizeMod in the study of parallel_for
MaxSrcLen == 5      \* source texts of 0..MaxSrcLen characters handed to the normalizer

\* ------------------------------------------------------------------------
\* Program constants
\* ------------------------------------------------------------------------
BASE == 31
MOD == 1000000009

\* ------------------------------------------------------------------------
\* uint64_t arithmetic.  A uint64_t is a sequence of 8 base-256 digits,
\* least significant first, so that products and sums wrap modulo 2^64
\* exactly as the C++ unsigned arithmetic does.
\* ------------------------------------------------------------------------
\* the uint64_t holding a value n < 2^31
ToU64(n) == <<n % 256, (n \div 256) % 256, (n \div 65536) % 256,
              (n \div 16777216) % 256, 0, 0, 0, 0>>

\* TLC hands an operator its arguments unevaluated; comparing a loop's
\* accumulator with itself evaluates it at every iteration, which keeps the
\* depth of evaluation of the loops below bounded.
Evaluated(v) == v = v

RECURSIVE Propagate(_, _, _)
\* carry propagation over column sums; yields Len(cols) + 1 digits
Propagate(cols, d, carry) ==
    IF Evaluated(carry) /\ d > Len(cols) THEN <<carry>>
    ELSE LET v == cols[d] + carry
         IN  <<v % 256>> \o Propagate(cols, d + 1, v \div 256)

RECURSIVE ColSum(_, _, _, _)
\* sum of a[x] * b[k + 1 - x] for x in lo..min(8, k)
ColSum(a, b, k, x) ==
    IF x > 8 \/ x > k THEN 0
    ELSE (IF k + 1 - x <= 8 THEN a[x] * b[k + 1 - x] ELSE 0) + ColSum(a, b, k, x + 1)

\* the exact 128-bit product, 16 digits
MulFull(a, b) ==
    Propagate(<<ColSum(a, b, 1, 1), ColSum(a, b, 2, 1), ColSum(a, b, 3, 1),
                ColSum(a, b, 4, 1), ColSum(a, b, 5, 1), ColSum(a, b, 6, 1),
                ColSum(a, b, 7, 1), ColSum(a, b, 8, 1), ColSum(a, b, 9, 1),
                ColSum(a, b, 10, 1), ColSum(a, b, 11, 1), ColSum(a, b, 12, 1),
                ColSum(a, b, 13, 1), ColSum(a, b, 14, 1), ColSum(a, b, 15, 1)>>, 1, 0)

\* the exact 65-bit sum, 9 digits
AddFull(a, b) ==
    Propagate(<<a[1] + b[1], a[2] + b[2], a[3] + b[3], a[4] + b[4],
                a[5] + b[5], a[6] + b[6], a[7] + b[7], a[8] + b[8]>>, 1, 0)

\* what a uint64_t keeps of an exact result
Trunc64(x) == SubSeq(x, 1, 8)

\* the exact result does not fit 64 bits
Wraps(x) == \E d \in 9..Len(x) : x[d] # 0

U64Mul(a, b) == Trunc64(MulFull(a, b))
U64Add(a, b) == Trunc64(AddFull(a, b))

RECURSIVE Times2Mod(_, _)
\* (r * 2^n) mod MOD for r < MOD, by doubling
Times2Mod(r, n) == IF Evaluated(r) /\ n = 0 THEN r ELSE Times2Mod((2 * r) % MOD, n - 1)

RECURSIVE ModFrom(_, _, _)
ModFrom(x, d, r) ==
    IF Evaluated(r) /\ d = 0 THEN r
    ELSE ModFrom(x, d - 1, (Times2Mod(r, 8) + x[d]) % MOD)

\* x % MOD for a uint64_t x
U64Mod(x) == ModFrom(x, 8, 0)

\* ------------------------------------------------------------------------
\* RollingHash
\* ------------------------------------------------------------------------
RECURSIVE BasePowerLoop(_, _, _)
\* the constructor's loop: for (i = 1; i < window_size_; ++i) bp = (bp * BASE) % MOD
BasePowerLoop(i, w, bp) ==
    IF Evaluated(bp) /\ i >= w THEN bp
    ELSE BasePowerLoop(i + 1, w, U64Mod(U64Mul(ToU64(bp), ToU64(BASE))))

\* RollingHash::RollingHash: base_power_ = BASE^(window_size-1) mod MOD
BasePower(w) == BasePowerLoop(1, w, 1)

\* the plain difference
PlainDifference(hash, old_contribution) == hash - old_contribution

\* rolling_hash.cpp:30-34: the old token's contribution is taken off the
\* hash, modulo MOD
WithoutOldest(hash, old_contribution) ==
    IF hash >= old_contribution
    THEN hash - old_contribution
    ELSE MOD - (old_contribution - hash)

\* RollingHash::push on the hasher state h = [hash, window] with window
\* size w and base power bp; yields the new state and the optional result
Push(h, w, bp, tok) ==
    LET full      == Len(h.window) >= w
        old_token == h.window[1]
        old_contribution == U64Mod(U64Mul(old_token, ToU64(bp)))
        hash1     == IF ~full THEN h.hash
                     ELSE WithoutOldest(h.hash, old_contribution)
        window1   == IF full THEN Tail(h.window) ELSE h.window
        hash2     == U64Mod(U64Add(U64Mul(ToU64(hash1), ToU64(BASE)), tok))
        window2   == Append(window1, tok)
    IN  [hash |-> hash2, window |-> window2,
         ready |-> Len(window2) >= w, value |-> hash2]

RECURSIVE ComputeHashFrom(_, _, _)
ComputeHashFrom(s, n, hash) ==
    IF Evaluated(hash) /\ n > Len(s) THEN hash
    ELSE ComputeHashFrom(s, n + 1,
            U64Mod(U64Add(U64Mul(ToU64(hash), ToU64(BASE)), s[n])))

\* RollingHash::compute_hash
compute_hash(s) == IF s = <<>> THEN 0 ELSE ComputeHashFrom(s, 1, 0)

\* ------------------------------------------------------------------------
\* Token hash values the rolling hash is driven with
\* ------------------------------------------------------------------------
U64Max == <<255, 255, 255, 255, 255, 255, 255, 255>>    \* 2^64 - 1
U64High == <<0, 0, 0, 0, 0, 0, 0, 16>>                  \* 2^60
U32Max == <<255, 255, 255, 255, 0, 0, 0, 0>>            \* 2^32 - 1

ModLess1 == ToU64(MOD - 1)                              \* MOD - 1

TokenValues == {ToU64(0), ToU64(7), ModLess1, U32Max, U64High, U64Max}

RECURSIVE SeqsUpTo(_, _)
\* all sequences over S of length 0..n
SeqsUpTo(S, n) ==
    IF n = 0 THEN {<<>>}
    ELSE LET shorter == SeqsUpTo(S, n - 1)
         IN  shorter \cup {Append(s, x) : s \in {t \in shorter : Len(t) = n - 1}, x \in S}

\* the rolling hash is not in use
HashIdle ==
    /\ window_size_ = 1
    /\ base_power_ = 1
    /\ hash_ = 0
    /\ window_ = <<>>
    /\ token_hashes = <<>>
    /\ batch = FALSE
    /\ rh_i = 0
    /\ rh_result = <<>>

\* no pair enumeration is in progress
PairsIdle ==
    /\ index_ = <<>>
    /\ pool_size = 1
    /\ seq_done = FALSE
    /\ seq_results = <<>>
    /\ par_pc = "idle"
    /\ chunk_pos = <<>>
    /\ thread_results = <<>>
    /\ par_results = <<>>

\* DetectorConfig's defaults (clone_types.hpp)
SevenTenths == [num |-> 7, den |-> 10]

DefaultConfig ==
    [window_size |-> 10, min_clone_tokens |-> 30, similarity_threshold |-> SevenTenths,
     detect_type2 |-> TRUE, detect_type3 |-> FALSE, max_gap_tokens |-> 5]

\* no analysis is under way
PipeIdle ==
    /\ files = <<>>
    /\ config_ = DefaultConfig
    /\ pc = "idle"
    /\ results = <<>>
    /\ file_paths_ = <<>>
    /\ tokenized_files = <<>>
    /\ pairs = <<>>

\* merge_adjacent_clones is not being called on its own
MergeIdle ==
    /\ sort_ties = "kept"
    /\ merge_in = <<>>
    /\ merge_gap = 0
    /\ merge_pc = 0
    /\ merged1 = <<>>
    /\ merged2 = <<>>

\* the extender is not being called on its own
ExtIdle ==
    /\ ext_cfg = [max_gap |-> 5, min_similarity |-> SevenTenths, min_tokens |-> 30,
                  lookahead |-> 10]
    /\ ext_files = <<>>
    /\ ext_paths = <<>>
    /\ ext_seeds = <<>>
    /\ ext_pc = "idle"
    /\ ext_out = <<>>
    /\ ext_reads = {}

\* no thread pool of its own is under study
TpIdle ==
    /\ stop_ = FALSE
    /\ tasks_ = <<>>
    /\ active_tasks_ = 0
    /\ workers_ = <<>>
    /\ submitted = 0
    /\ enqueued = {}
    /\ thrown = {}
    /\ completed = {}
    /\ dtor_pc = "none"
    /\ joined = 0
    /\ left_at_stop = {}

\* no call of parallel_for of its own is under study
PfIdle ==
    /\ pf_begin = 0
    /\ pf_end = 0
    /\ pf_workers = 1
    /\ pf_pc = "idle"
    /\ pf_t = 0
    /\ pf_chunks = <<>>
    /\ pf_calls = <<>>

\* no call of CppNormalizer::normalize of its own is under study
NzIdle ==
    /\ nz_source = <<>>
    /\ nz_state = [pos |-> 0, line |-> 1, column |-> 1, at_line_start |-> TRUE]
    /\ current_line = 0
    /\ line_has_code = FALSE
    /\ line_has_comment = FALSE
    /\ code_lines = 0
    /\ comment_lines = 0
    /\ blank_lines = 0
    /\ total_lines = 0
    /\ nz_pc = "idle"

\* no call of CloneExtender::extend is followed iteration by iteration
XsIdle ==
    /\ xs_pc = "idle"
    /\ xs_pos_a = 0
    /\ xs_pos_b = 0
    /\ xs_extended = 0
    /\ xs_back_ext = 0
    /\ xs_fwd_ext = 0
    /\ xs_matches = 0

LaterIdle == PfIdle /\ NzIdle /\ XsIdle

RestIdle == ExtIdle /\ TpIdle /\ LaterIdle

\* ------------------------------------------------------------------------
\* Specification of the rolling hash: construct a hasher, push a sequence
\* ------------------------------------------------------------------------
InitHash ==
    /\ RestIdle
    /\ PairsIdle
    /\ PipeIdle
    /\ MergeIdle
    /\ window_size_ \in 1..MaxWindow
    /\ base_power_ = BasePower(window_size_)
    /\ hash_ = 0
    /\ window_ = <<>>
    /\ token_hashes \in SeqsUpTo(TokenValues, MaxSeqLen)
    /\ batch \in BOOLEAN
    /\ rh_i = 0
    /\ rh_result = <<>>

\* one iteration of compute_all's loop (or of a caller's push loop)
PushNext ==
    /\ rh_i < Len(token_hashes)
    /\ batch => Len(token_hashes) >= window_size_
    /\ LET r == Push([hash |-> hash_, window |-> window_], window_size_,
                     base_power_, token_hashes[rh_i + 1])
       IN  /\ hash_' = r.hash
           /\ window_' = r.window
           /\ rh_result' = IF r.ready
                           THEN Append(rh_result, <<(rh_i + 1) - window_size_, r.value>>)
                           ELSE rh_result
    /\ rh_i' = rh_i + 1
    /\ UNCHANGED <<window_size_, base_power_, token_hashes, batch>>
    /\ UNCHANGED <<restVars, pairVars, pipeVars, mergeVars>>

NextHash == PushNext

SpecHash == InitHash /\ [][NextHash]_vars

\* compute_all has returned / the push loop has consumed the whole sequence
HashDone ==
    \/ rh_i = Len(token_hashes)
    \/ batch /\ Len(token_hashes) < window_size_

\* C1: for every window size k >= 1 and every sequence s of 64-bit token
\* hashes, exactly one hash is emitted for each position p in [0, |s|-k]
\* (none when |s| < k), and the hash emitted at position p equals
\* compute_hash(s[p..p+k]).
C1_RollingEqualsDirect ==
    /\ \A n \in 1..Len(rh_result) :
          rh_result[n] =
            <<n - 1, compute_hash(SubSeq(token_hashes, n, n + window_size_ - 1))>>
    /\ HashDone =>
          Len(rh_result) = IF Len(token_hashes) < window_size_ THEN 0
                           ELSE Len(token_hashes) - window_size_ + 1

\* ------------------------------------------------------------------------
\* HashLocation, ClonePair (clone_types.hpp).  The column fields take no
\* part in any decision of the core and are left out.
\* ------------------------------------------------------------------------
Loc(f, sl, el, ts, tc) ==
    [file_id |-> f, start_line |-> sl, end_line |-> el,
     token_start |-> ts, token_count |-> tc]

\* HashLocation::overlaps
overlapsOnlyStrictly(a, b) ==
    IF a.file_id # b.file_id THEN FALSE
    ELSE ~(a.end_line <= b.start_line \/ a.start_line >= b.end_line)
overlaps(a, b) ==
    IF a.file_id # b.file_id THEN FALSE
    ELSE ~(a.end_line < b.start_line \/ a.start_line > b.end_line)

\* a similarity is the quotient num / den of two naturals
Half == [num |-> 1, den |-> 2]

One == [num |-> 1, den |-> 1]

\* the pair built at hash_index.cpp:75-80
NewPair(loc_a, loc_b, hash) ==
    [location_a |-> loc_a, location_b |-> loc_b, clone_type |-> "TYPE_1",
     similarity |-> One, shared_hash |-> hash]

RECURSIVE PairsInner(_, _, _, _, _)
\* the loop over j of find_clone_pairs (and of the parallel task)
PairsInner(locations, hash, i, j, acc) ==
    IF Evaluated(acc) /\ j > Len(locations) THEN acc
    ELSE LET loc_a == locations[i]
             loc_b == locations[j]
         IN  IF loc_a.file_id = loc_b.file_id /\ overlaps(loc_a, loc_b)
             THEN PairsInner(locations, hash, i, j + 1, acc)
             ELSE PairsInner(locations, hash, i, j + 1,
                             Append(acc, NewPair(loc_a, loc_b, hash)))

RECURSIVE PairsOuter(_, _, _, _)
\* the loop over i
PairsOuter(locations, hash, i, acc) ==
    IF Evaluated(acc) /\ i > Len(locations) THEN acc
    ELSE PairsOuter(locations, hash, i + 1,
                    PairsInner(locations, hash, i, i + 1, acc))

\* the pairs one (hash, locations) entry contributes, appended to acc
PairsOfEntry(entry, acc) == PairsOuter(entry.locations, entry.hash, 1, acc)

RECURSIVE FindLoop(_, _, _)
\* the loop over the entries lo..hi of the index, in order; it is evaluated
\* as the loop over the first half followed by the loop over the second, so
\* that an index of a hundred entries does not nest a hundred evaluations
FindLoop(index, lo, hi) ==
    IF lo > hi THEN <<>>
    ELSE IF lo = hi
         THEN IF Len(index[lo].locations) < 2 THEN <<>>
              ELSE PairsOfEntry(index[lo], <<>>)
         ELSE LET mid == (lo + hi) \div 2
              IN  FindLoop(index, lo, mid) \o FindLoop(index, mid + 1, hi)

\* HashIndex::find_clone_pairs
find_clone_pairs(index) == FindLoop(index, 1, Len(index))

\* ------------------------------------------------------------------------
\* Index contents the enumeration is driven with
\* ------------------------------------------------------------------------
LocValues ==
    {Loc(0, 1, 2, 0, 2), Loc(0, 2, 3, 1, 2), Loc(0, 4, 5, 3, 2), Loc(1, 1, 2, 0, 2)}

RECURSIVE Chop(_, _, _, _)
\* s cut into consecutive non-empty lists after the positions in cuts
Chop(s, cuts, start, i) ==
    IF i > Len(s) THEN <<>>
    ELSE IF i \in cuts \/ i = Len(s)
         THEN <<SubSeq(s, start, i)>> \o Chop(s, cuts, i + 1, i + 1)
         ELSE Chop(s, cuts, start, i + 1)

\* an index whose n-th entry has the hash n and the n-th list
IndexOf(lists) == [n \in 1..Len(lists) |-> [hash |-> n, locations |-> lists[n]]]

\* every index over LocValues holding at most MaxIndexLocs locations
SmallIndexes ==
    UNION {{IndexOf(Chop(s, cuts, 1, 1)) : cuts \in SUBSET (1..(Len(s) - 1))} :
             s \in SeqsUpTo(LocValues, MaxIndexLocs)}

\* ------------------------------------------------------------------------
\* Specification of the sequential enumeration
\* ------------------------------------------------------------------------
InitPairs ==
    /\ RestIdle
    /\ HashIdle
    /\ PipeIdle
    /\ MergeIdle
    /\ index_ \in SmallIndexes
    /\ pool_size = 1
    /\ seq_done = FALSE
    /\ seq_results = <<>>
    /\ par_pc = "idle"
    /\ chunk_pos = <<>>
    /\ thread_results = <<>>
    /\ par_results = <<>>

\* a call of HashIndex::find_clone_pairs
FindClonePairs ==
    /\ ~seq_done
    /\ seq_done' = TRUE
    /\ seq_results' = find_clone_pairs(index_)
    /\ UNCHANGED <<index_, pool_size, par_pc, chunk_pos, thread_results, par_results>>
    /\ UNCHANGED <<restVars, hashVars, pipeVars, mergeVars>>

NextPairs == FindClonePairs

SpecPairs == InitPairs /\ [][NextPairs]_vars

\* the (entry, i, j) positions of the index that the claim wants returned
SameFileOverlap(a, b) ==
    /\ a.file_id = b.file_id
    /\ a.start_line <= b.end_line
    /\ b.start_line <= a.end_line

WantedPositions(index) ==
    {t \in {<<n, i, j>> : n \in DOMAIN index, i \in 1..MaxIndexLocs + 1,
                          j \in 1..MaxIndexLocs + 1} :
        /\ t[2] < t[3]
        /\ t[3] <= Len(index[t[1]].locations)
        /\ ~SameFileOverlap(index[t[1]].locations[t[2]], index[t[1]].locations[t[3]])}

WantedPair(index, t) ==
    [location_a |-> index[t[1]].locations[t[2]],
     location_b |-> index[t[1]].locations[t[3]],
     clone_type |-> "TYPE_1", similarity |-> One, shared_hash |-> index[t[1]].hash]

\* C2: find_clone_pairs returns, for every hash with two or more locations,
\* exactly one pair per position pair i < j of its location list, except the
\* pairs of one file with overlapping line ranges, which are never returned;
\* every returned pair is Type-1 with similarity 1.0, and a hash with a
\* single location contributes no pair.
C2_PairsExactlyNonOverlapping ==
    seq_done =>
        LET wanted == WantedPositions(index_)
        IN  /\ Len(seq_results) = Cardinality(wanted)
            /\ \A t \in wanted :
                   Cardinality({r \in DOMAIN seq_results :
                                  seq_results[r] = WantedPair(index_, t)})
                   = Cardinality({u \in wanted :
                                  WantedPair(index_, u) = WantedPair(index_, t)})
            /\ \A r \in DOMAIN seq_results :
                   /\ seq_results[r].clone_type = "TYPE_1"
                   /\ seq_results[r].similarity = One
                   /\ ~SameFileOverlap(seq_results[r].location_a,
                                       seq_results[r].location_b)
                   /\ \A n \in DOMAIN index_ :
                          Len(index_[n].locations) = 1
                          => seq_results[r].shared_hash # index_[n].hash

\* an index with a single-location hash and a hash of which one position pair
\* is skipped for overlapping in one file and another is returned
C2_Witness ==
    /\ seq_done
    /\ \E n \in DOMAIN index_ : Len(index_[n].locations) = 1
    /\ \E n \in DOMAIN index_ :
          \E i, j \in DOMAIN index_[n].locations :
             /\ i < j
             /\ SameFileOverlap(index_[n].locations[i], index_[n].locations[j])
             /\ index_[n].locations[i] # index_[n].locations[j]
    /\ Len(seq_results) >= 2

\* ------------------------------------------------------------------------
\* HashIndex::find_clone_pairs_parallel and ThreadPool::parallel_for
\* ------------------------------------------------------------------------
WorkThreshold == 100

Min2(a, b) == IF a < b THEN a ELSE b

IsWorkItem(entry) == Len(entry.locations) >= 2

\* hash_index.cpp:95-102
work_items(index) == SelectSeq(index, IsWorkItem)

\* the local_results of the task run for one work item
local_results(item) == PairsOuter(item.locations, item.hash, 1, <<>>)

\* parallel_for: number of chunk tasks and their ranges (indices from 0)
num_workers(num_tasks, pool) == Min2(num_tasks, pool)
chunk_size(num_tasks, pool) ==
    (num_tasks + num_workers(num_tasks, pool) - 1) \div num_workers(num_tasks, pool)
chunk_begin(t, num_tasks, pool) == (t - 1) * chunk_size(num_tasks, pool)
chunk_end(t, num_tasks, pool) ==
    Min2(chunk_begin(t, num_tasks, pool) + chunk_size(num_tasks, pool), num_tasks)
\* the chunk tasks parallel_for submits (it stops at the first empty chunk)
Chunks(num_tasks, pool) ==
    {t \in 1..num_workers(num_tasks, pool) : chunk_begin(t, num_tasks, pool) < num_tasks}

\* hash_index.cpp:144-147
BucketOverwrite(bucket, local) == local
BucketInsert(bucket, local) == bucket \o local

RECURSIVE ConcatBuckets(_, _, _)
\* hash_index.cpp:160-164
ConcatBuckets(buckets, b, out) ==
    IF Evaluated(out) /\ b > Len(buckets) THEN out
    ELSE ConcatBuckets(buckets, b + 1, out \o buckets[b])

\* the first index in [from, to) whose task has pairs to publish, else to
NextPublishing(items, from, to) ==
    LET publishing == {i \in from..(to - 1) : local_results(items[i + 1]) # <<>>}
    IN  IF publishing = {} THEN to
        ELSE CHOOSE i \in publishing : \A j \in publishing : i <= j

\* work items: without pairs (one file, overlapping lines), with two pairs,
\* and with the same pair twice
FillerItem == <<Loc(0, 1, 2, 0, 2), Loc(0, 2, 3, 1, 2)>>
TwoPairItem == <<Loc(0, 1, 2, 0, 2), Loc(0, 2, 3, 1, 2), Loc(1, 1, 2, 0, 2)>>
TwicePairItem == <<Loc(0, 1, 2, 0, 2), Loc(1, 1, 2, 0, 2), Loc(1, 1, 2, 0, 2)>>
ItemShapes == {FillerItem, TwoPairItem, TwicePairItem}
SingleItem == <<Loc(1, 4, 5, 3, 2)>>

\* the positions (from 1) of the work items that vary; the others are fillers
VaryingSlots(n) == {1, 2, (n \div 2) + 1, n}

\* n work items with the given shapes in the varying slots, and entries
\* with a single location before the first and after the second of them
LargeIndex(n, shape) ==
    [e \in 1..(n + 2) |->
        [hash |-> e,
         locations |-> IF e = 1 \/ e = 4 THEN SingleItem
                       ELSE LET w == IF e < 4 THEN e - 1 ELSE e - 2
                            IN  IF w \in VaryingSlots(n) THEN shape[w]
                                ELSE FillerItem]]

InitParallel ==
    /\ RestIdle
    /\ HashIdle
    /\ PipeIdle
    /\ MergeIdle
    /\ \E n \in (WorkThreshold - 1)..(WorkThreshold + MaxExtraItems) :
          \E shape \in [VaryingSlots(n) -> ItemShapes] :
             index_ = LargeIndex(n, shape)
    /\ pool_size \in 1..MaxPool
    /\ seq_done = FALSE
    /\ seq_results = <<>>
    /\ par_pc = "idle"
    /\ chunk_pos = <<>>
    /\ thread_results = <<>>
    /\ par_results = <<>>

\* find_clone_pairs_parallel up to the submission of the chunk tasks, or the
\* whole call when it falls back to the sequential enumeration
ParStart ==
    /\ par_pc = "idle"
    /\ LET n == Len(work_items(index_))
       IN  IF n < WorkThreshold \/ pool_size <= 1
           THEN /\ par_results' = find_clone_pairs(index_)
                /\ par_pc' = "done"
                /\ UNCHANGED <<chunk_pos, thread_results>>
           ELSE /\ thread_results' = [b \in 1..pool_size |-> <<>>]
                /\ chunk_pos' = [t \in Chunks(n, pool_size) |-> chunk_begin(t, n, pool_size)]
                /\ par_pc' = "running"
                /\ UNCHANGED par_results
    /\ UNCHANGED <<index_, pool_size, seq_done, seq_results>>
    /\ UNCHANGED <<restVars, hashVars, pipeVars, mergeVars>>

\* chunk task t runs its loop through the indices whose local_results are
\* empty, which touch nothing shared, up to and including the next index
\* that appends to its bucket under results_mutex, or to the chunk's end
ChunkStep(t) ==
    /\ par_pc = "running"
    /\ t \in DOMAIN chunk_pos
    /\ LET items == work_items(index_)
           last  == chunk_end(t, Len(items), pool_size)
           idx   == NextPublishing(items, chunk_pos[t], last)
       IN  /\ chunk_pos[t] < last
           /\ IF idx < last
              THEN /\ thread_results' =
                        [thread_results EXCEPT ![(idx % pool_size) + 1] =
                            BucketInsert(@, local_results(items[idx + 1]))]
                   /\ chunk_pos' = [chunk_pos EXCEPT ![t] = idx + 1]
              ELSE /\ chunk_pos' = [chunk_pos EXCEPT ![t] = last]
                   /\ UNCHANGED thread_results
    /\ UNCHANGED <<index_, pool_size, seq_done, seq_results, par_pc, par_results>>
    /\ UNCHANGED <<restVars, hashVars, pipeVars, mergeVars>>

\* every future has been waited for: the buckets are concatenated
ParJoin ==
    /\ par_pc = "running"
    /\ \A t \in DOMAIN chunk_pos :
          chunk_pos[t] = chunk_end(t, Len(work_items(index_)), pool_size)
    /\ par_results' = ConcatBuckets(thread_results, 1, <<>>)
    /\ par_pc' = "done"
    /\ UNCHANGED <<index_, pool_size, seq_done, seq_results, chunk_pos, thread_results>>
    /\ UNCHANGED <<restVars, hashVars, pipeVars, mergeVars>>

NextParallel ==
    \/ ParStart
    \/ \E t \in 1..MaxPool + 1 : ChunkStep(t)
    \/ ParJoin

SpecParallel == InitParallel /\ [][NextParallel]_vars

Occurrences(seq, v) == Cardinality({r \in DOMAIN seq : seq[r] = v})

\* C3: for every index and every pool of at least two workers, under every
\* interleaving of the worker tasks, find_clone_pairs_parallel returns the
\* pairs of the sequential find_clone_pairs on the same index, as a multiset
\* (every pair with the same multiplicity).
C3_ParallelSameMultiset ==
    (par_pc = "done" /\ pool_size >= 2) =>
        LET sequential == find_clone_pairs(index_)
        IN  /\ Len(par_results) = Len(sequential)
            /\ \A r \in DOMAIN par_results :
                   Occurrences(par_results, par_results[r])
                   = Occurrences(sequential, par_results[r])

\* the parallel path was taken, two tasks of different chunks appended to
\* one bucket, and the returned order is not the sequential one
C3_Witness ==
    /\ par_pc = "done"
    /\ pool_size >= 2
    /\ Len(work_items(index_)) >= WorkThreshold
    /\ \E b \in DOMAIN thread_results : Len(thread_results[b]) >= 3
    /\ par_results # find_clone_pairs(index_)

\* ------------------------------------------------------------------------
\* SimilarityDetector::tokenize_files.  An input file is a record of its
\* path, of whether tokenize_single_file and read_file succeed on it, and
\* of the tokens the normalizer yields for it.
\* ------------------------------------------------------------------------
ParallelFileThreshold == 4

Readable(file) == file.readable

\* the TokenizedFile of an input file
TokenizedFile(file) == [path |-> file.path, tokens |-> file.tokens]

\* HashIndex::register_file: the id table after registering path
register_file(paths, path) ==
    IF \E id \in DOMAIN paths : paths[id] = path THEN paths
    ELSE Append(paths, path)

\* the id register_file returns for a registered path (ids count from 0)
file_id_of(paths, path) == (CHOOSE id \in DOMAIN paths : paths[id] = path) - 1

RECURSIVE RegisterAll(_, _, _)
\* the registration loop over a list of tokenized files
RegisterAll(toks, n, paths) ==
    IF Evaluated(paths) /\ n > Len(toks) THEN paths
    ELSE RegisterAll(toks, n + 1, register_file(paths, toks[n].path))

\* similarity_detector.cpp:171 (the pool exists once ensure_initialized ran)
use_parallel(fs) == Len(fs) >= ParallelFileThreshold

\* the files tokenized one after the other in input order, failures skipped
TokenizeInOrder(fs) ==
    LET ok == SelectSeq(fs, Readable)
    IN  [n \in 1..Len(ok) |-> TokenizedFile(ok[n])]

\* the sequential path, similarity_detector.cpp:176-189
TokenizeSequential ==
    /\ pc = "tokenize"
    /\ ~use_parallel(files)
    /\ tokenized_files' = TokenizeInOrder(files)
    /\ file_paths_' = RegisterAll(TokenizeInOrder(files), 1, file_paths_)
    /\ pc' = "tokenized"
    /\ UNCHANGED <<files, config_, results, pairs>>
    /\ UNCHANGED <<restVars, hashVars, pairVars, mergeVars>>

\* the parallel path up to the submission of parallel_for's chunk tasks;
\* with a single worker parallel_for runs the whole range itself
TokenizeSubmit ==
    /\ pc = "tokenize"
    /\ use_parallel(files)
    /\ IF num_workers(Len(files), pool_size) <= 1
       THEN /\ results' = TokenizeInOrder(files)
            /\ chunk_pos' = <<>>
       ELSE /\ results' = <<>>
            /\ chunk_pos' = [t \in Chunks(Len(files), pool_size) |->
                                chunk_begin(t, Len(files), pool_size)]
    /\ pc' = "tokenizing"
    /\ UNCHANGED <<files, config_, file_paths_, tokenized_files, pairs>>
    /\ UNCHANGED <<index_, pool_size, seq_done, seq_results, par_pc, thread_results, par_results>>
    /\ UNCHANGED <<restVars, hashVars, mergeVars>>

\* chunk task t tokenizes its next file and, if that succeeded, appends the
\* outcome to results under state_mutex (similarity_detector.cpp:196-207)
TokenizeTask(t) ==
    /\ pc = "tokenizing"
    /\ t \in DOMAIN chunk_pos
    /\ chunk_pos[t] < chunk_end(t, Len(files), pool_size)
    /\ LET file == files[chunk_pos[t] + 1]
       IN  results' = IF Readable(file) THEN Append(results, TokenizedFile(file))
                      ELSE results
    /\ chunk_pos' = [chunk_pos EXCEPT ![t] = @ + 1]
    /\ UNCHANGED <<files, config_, pc, file_paths_, tokenized_files, pairs>>
    /\ UNCHANGED <<index_, pool_size, seq_done, seq_results, par_pc, thread_results, par_results>>
    /\ UNCHANGED <<restVars, hashVars, mergeVars>>

\* every chunk task has finished: the files are registered in the order of
\* results (similarity_detector.cpp:209-215)
RegisterFiles ==
    /\ pc = "tokenizing"
    /\ \A t \in DOMAIN chunk_pos : chunk_pos[t] = chunk_end(t, Len(files), pool_size)
    /\ file_paths_' = RegisterAll(results, 1, file_paths_)
    /\ tokenized_files' = results
    /\ pc' = "tokenized"
    /\ UNCHANGED <<files, config_, results, pairs>>
    /\ UNCHANGED <<restVars, hashVars, pairVars, mergeVars>>

\* input lists of files with distinct paths, each readable or not, whose
\* tokens play no part in the assignment of ids
PlainFiles ==
    UNION {{[i \in 1..n |-> [path |-> i, readable |-> ok[i], tokens |-> <<>>]] :
               ok \in [1..n -> BOOLEAN]} : n \in 1..MaxTokFiles}

InitTokenize ==
    /\ RestIdle
    /\ HashIdle
    /\ MergeIdle
    /\ index_ = <<>>
    /\ pool_size \in 1..MaxPool
    /\ seq_done = FALSE
    /\ seq_results = <<>>
    /\ par_pc = "idle"
    /\ chunk_pos = <<>>
    /\ thread_results = <<>>
    /\ par_results = <<>>
    /\ files \in PlainFiles
    /\ config_ = DefaultConfig
    /\ pc = "tokenize"
    /\ results = <<>>
    /\ file_paths_ = <<>>
    /\ tokenized_files = <<>>
    /\ pairs = <<>>

NextTokenize ==
    \/ TokenizeSequential
    \/ TokenizeSubmit
    \/ \E t \in 1..MaxPool + 1 : TokenizeTask(t)
    \/ RegisterFiles

SpecTokenize == InitTokenize /\ [][NextTokenize]_vars

\* the ids the files get when they are tokenized and registered one after
\* the other in the order of the input list
InputOrderIds(fs) == RegisterAll(TokenizeInOrder(fs), 1, <<>>)

\* C4: on the parallel path of tokenize_files (four or more input files and
\* a worker pool) the file id of each path depends only on the order of the
\* input list: every interleaving and completion order of the tokenization
\* tasks yields the same path-to-id table, the one of the input order.
C4_FileIdsFollowInputOrder ==
    (pc = "tokenized" /\ use_parallel(files)) => file_paths_ = InputOrderIds(files)

\* ------------------------------------------------------------------------
\* HashIndex::merge_adjacent_clones
\* ------------------------------------------------------------------------
Max2(a, b) == IF a > b THEN a ELSE b

\* the comparator handed to std::sort (hash_index.cpp:178-190)
SortsBefore(a, b) ==
    LET a_file_min == Min2(a.location_a.file_id, a.location_b.file_id)
        a_file_max == Max2(a.location_a.file_id, a.location_b.file_id)
        b_file_min == Min2(b.location_a.file_id, b.location_b.file_id)
        b_file_max == Max2(b.location_a.file_id, b.location_b.file_id)
    IN  IF a_file_min # b_file_min THEN a_file_min < b_file_min
        ELSE IF a_file_max # b_file_max THEN a_file_max < b_file_max
        ELSE a.location_a.token_start < b.location_a.token_start

RECURSIVE InsertPair(_, _, _)
\* p inserted into a sorted list behind the elements it does not sort before
InsertPair(sorted, p, n) ==
    IF n > Len(sorted) THEN Append(sorted, p)
    ELSE IF SortsBefore(p, sorted[n])
         THEN SubSeq(sorted, 1, n - 1) \o <<p>> \o SubSeq(sorted, n, Len(sorted))
         ELSE InsertPair(sorted, p, n + 1)

RECURSIVE SortKeepingTies(_, _, _)
SortKeepingTies(list, n, sorted) ==
    IF Evaluated(sorted) /\ n > Len(list) THEN sorted
    ELSE SortKeepingTies(list, n + 1, InsertPair(sorted, list[n], 1))

Reverse(list) == [n \in 1..Len(list) |-> list[Len(list) + 1 - n]]

\* std::sort with that comparator.  The order it leaves pairs of equal key
\* in is unspecified; a build either keeps them in the order of the input
\* or not, and the second is represented by the reversal of every run of
\* equal keys.
SortPairs(list, ties) ==
    IF ties = "kept" THEN SortKeepingTies(list, 1, <<>>)
    ELSE SortKeepingTies(Reverse(list), 1, <<>>)

\* pairs are taken to be of the same files whatever their files are
AnyFiles(current, next) == TRUE

\* hash_index.cpp:198-203
same_files(current, next) ==
    \/ /\ current.location_a.file_id = next.location_a.file_id
       /\ current.location_b.file_id = next.location_b.file_id
    \/ /\ current.location_a.file_id = next.location_b.file_id
       /\ current.location_b.file_id = next.location_a.file_id

\* hash_index.cpp:231-234
NewEndOfNext(curr_end, next_end) == next_end
NewEnd(curr_end, next_end) == Max2(curr_end, next_end)

\* the token_count of an extended current pair, taken from its start
MergedCountFromZero(new_end, token_start) == new_end

\* hash_index.cpp:236-237
MergedCount(new_end, token_start) == new_end - token_start

\* the next pair has to start where the current one ends or before
WithinNoGap(next_start, curr_end, max_gap) == next_start <= curr_end

\* hash_index.cpp:225, 227: the tolerance of max_gap tokens
WithinGap(next_start, curr_end, max_gap) == next_start <= curr_end + max_gap

\* one iteration of the sweep: the pair current becomes and whether the
\* old current is pushed to merged (hash_index.cpp:195-247)
SweepStep(current, next, max_gap) ==
    IF ~same_files(current, next) THEN [push |-> TRUE, current |-> next]
    ELSE
    LET swap   == current.location_a.file_id # next.location_a.file_id
        curr_a == current.location_a
        curr_b == current.location_b
        next_a == IF swap THEN next.location_b ELSE next.location_a
        next_b == IF swap THEN next.location_a ELSE next.location_b
        curr_end_a == curr_a.token_start + curr_a.token_count
        curr_end_b == curr_b.token_start + curr_b.token_count
        adjacent_a == /\ WithinGap(next_a.token_start, curr_end_a, max_gap)
                      /\ next_a.token_start >= curr_a.token_start
        adjacent_b == /\ WithinGap(next_b.token_start, curr_end_b, max_gap)
                      /\ next_b.token_start >= curr_b.token_start
        new_end_a == NewEnd(curr_end_a, next_a.token_start + next_a.token_count)
        new_end_b == NewEnd(curr_end_b, next_b.token_start + next_b.token_count)
    IN  IF adjacent_a /\ adjacent_b
        THEN [push |-> FALSE,
              current |->
                [current EXCEPT
                   !.location_a.token_count =
                       MergedCount(new_end_a, current.location_a.token_start),
                   !.location_b.token_count =
                       MergedCount(new_end_b, current.location_b.token_start),
                   !.location_a.end_line = Max2(curr_a.end_line, next_a.end_line),
                   !.location_b.end_line = Max2(curr_b.end_line, next_b.end_line)]]
        ELSE [push |-> TRUE, current |-> next]

RECURSIVE MergeSweep(_, _, _, _, _)
MergeSweep(sorted, i, current, merged, max_gap) ==
    IF Evaluated(merged) /\ Evaluated(current) /\ i > Len(sorted)
    THEN Append(merged, current)
    ELSE LET step == SweepStep(current, sorted[i], max_gap)
         IN  MergeSweep(sorted, i + 1, step.current,
                        IF step.push THEN Append(merged, current) ELSE merged,
                        max_gap)

merge_adjacent_clones(list, max_gap, ties) ==
    IF list = <<>> THEN list
    ELSE LET sorted == SortPairs(list, ties)
         IN  MergeSweep(sorted, 2, sorted[1], <<>>, max_gap)

\* ------------------------------------------------------------------------
\* Specification of the merger called on a list of pairs and then on its
\* own output
\* ------------------------------------------------------------------------
\* a window of two tokens starting at token ts of file f
Window2(f, ts) == Loc(f, ts + 1, ts + 2, ts, 2)

\* pairs over two files and two starts, in both orientations and within
\* one file
MergePairValues ==
    {NewPair(Window2(0, ta), Window2(1, tb), 1) : ta \in {0, 3}, tb \in {0, 3}}
    \cup {NewPair(Window2(1, 0), Window2(0, 3), 1), NewPair(Window2(1, 3), Window2(0, 0), 1),
          NewPair(Window2(0, 0), Window2(0, 3), 1)}

InitMerge ==
    /\ RestIdle
    /\ HashIdle
    /\ PairsIdle
    /\ PipeIdle
    /\ sort_ties \in {"kept", "reversed"}
    /\ merge_in \in SeqsUpTo(MergePairValues, MaxMergePairs)
    /\ merge_gap \in 0..MaxMergeGap
    /\ merge_pc = 0
    /\ merged1 = <<>>
    /\ merged2 = <<>>

\* merge_adjacent_clones(P, max_gap)
MergeOnce ==
    /\ merge_pc = 0
    /\ merged1' = merge_adjacent_clones(merge_in, merge_gap, sort_ties)
    /\ merge_pc' = 1
    /\ UNCHANGED <<sort_ties, merge_in, merge_gap, merged2>>
    /\ UNCHANGED <<restVars, hashVars, pairVars, pipeVars>>

\* merge_adjacent_clones on what the first call returned
MergeAgain ==
    /\ merge_pc = 1
    /\ merged2' = merge_adjacent_clones(merged1, merge_gap, sort_ties)
    /\ merge_pc' = 2
    /\ UNCHANGED <<sort_ties, merge_in, merge_gap, merged1>>
    /\ UNCHANGED <<restVars, hashVars, pairVars, pipeVars>>

NextMerge == MergeOnce \/ MergeAgain

SpecMerge == InitMerge /\ [][NextMerge]_vars

\* The sides of pairs that belong together: a side is identified by the
\* pair's two files and the side's own file, and within one file, where the
\* merger never exchanges the sides, by being the A or the B side.
SideLoc(p, side) == IF side = "a" THEN p.location_a ELSE p.location_b

SideKey(p, side) ==
    <<Min2(p.location_a.file_id, p.location_b.file_id),
      Max2(p.location_a.file_id, p.location_b.file_id),
      SideLoc(p, side).file_id,
      IF p.location_a.file_id = p.location_b.file_id THEN side ELSE "-">>

SideKeys(list) == {SideKey(list[n], side) : n \in DOMAIN list, side \in {"a", "b"}}

SideLocs(list, key) ==
    {SideLoc(list[x[1]], x[2]) :
        x \in {y \in (DOMAIN list) \X {"a", "b"} : SideKey(list[y[1]], y[2]) = key}}

EndOf(l) == l.token_start + l.token_count

Positions(l) == l.token_start .. (EndOf(l) - 1)

Covered(list, key) == UNION {Positions(l) : l \in SideLocs(list, key)}

\* output covers input: nothing of the input is lost, and what the output
\* covers beyond the input lies in a gap of at most max_gap tokens between
\* the end of one input and the start of another, both merged into it
Covering(input, output, max_gap) ==
    \A key \in SideKeys(input) \cup SideKeys(output) :
       /\ Covered(input, key) \subseteq Covered(output, key)
       /\ \A o \in SideLocs(output, key) : \A x \in Positions(o) :
             \/ x \in Covered(input, key)
             \/ \E l1, l2 \in SideLocs(input, key) :
                   /\ o.token_start <= l1.token_start
                   /\ EndOf(l2) <= EndOf(o)
                   /\ EndOf(l1) <= x
                   /\ x < l2.token_start
                   /\ l2.token_start - EndOf(l1) <= max_gap

\* C8: for every input list and every max_gap the output of
\* merge_adjacent_clones is covering: on each side of each file pair it
\* covers every token position the input covers, and beyond those only
\* positions in gaps of at most max_gap tokens between merged inputs.
C8_MergeIsCovering ==
    /\ merge_pc >= 1 => Covering(merge_in, merged1, merge_gap)
    /\ merge_pc >= 2 => Covering(merged1, merged2, merge_gap)

\* a call that merged pairs across a gap, covering positions no input covers
C8_Witness ==
    /\ merge_pc >= 1
    /\ merge_gap >= 1
    /\ Len(merged1) < Len(merge_in)
    /\ \E key \in SideKeys(merged1) : Covered(merged1, key) # Covered(merge_in, key)

\* C9: merge_adjacent_clones is idempotent: called on its own output, with
\* the same max_gap, it returns that output.
C9_MergeIdempotent ==
    merge_pc = 2 => merged2 = merged1

\* ------------------------------------------------------------------------
\* HashSequence::compute_all and HashIndexBuilder::add_file
\* ------------------------------------------------------------------------
RECURSIVE ComputeAllLoop(_, _, _, _, _, _)
\* the push loop of compute_all (rolling_hash.cpp:92-99)
ComputeAllLoop(s, i, h, w, bp, out) ==
    IF Evaluated(out) /\ Evaluated(h) /\ i > Len(s) THEN out
    ELSE LET r == Push(h, w, bp, s[i])
         IN  ComputeAllLoop(s, i + 1, [hash |-> r.hash, window |-> r.window], w, bp,
                            IF r.ready THEN Append(out, <<i - w, r.value>>) ELSE out)

compute_all(s, w) ==
    IF Len(s) < w THEN <<>>
    ELSE ComputeAllLoop(s, 1, [hash |-> 0, window |-> <<>>], w, BasePower(w), <<>>)

\* a NormalizedToken (column and length left out)
Token(type, original_hash, normalized_hash, line) ==
    [type |-> type, original_hash |-> original_hash,
     normalized_hash |-> normalized_hash, line |-> line]

IsStructural(tok) == tok.type \in {"NEWLINE", "INDENT", "DEDENT"}

\* add_file's token_mapping: the indices (from 1) of the tokens that are
\* not structural
token_mapping(tokens) ==
    LET Kept(i) == ~IsStructural(tokens[i])
    IN  SelectSeq([i \in 1..Len(tokens) |-> i], Kept)

\* add_file's token_hashes
FileTokenHashes(tokens, use_normalized) ==
    LET mapping == token_mapping(tokens)
    IN  [n \in 1..Len(mapping) |->
            ToU64(IF use_normalized THEN tokens[mapping[n]].normalized_hash
                  ELSE tokens[mapping[n]].original_hash)]

\* HashIndex::add_hash; a new hash is entered behind the ones present
add_hash(index, hash, location) ==
    IF \E n \in DOMAIN index : index[n].hash = hash
    THEN LET n == CHOOSE m \in DOMAIN index : index[m].hash = hash
         IN  [index EXCEPT ![n].locations = Append(@, location)]
    ELSE Append(index, [hash |-> hash, locations |-> <<location>>])

\* the HashLocation add_file builds for the window at pos (hash_index.cpp:344-355)
WindowLocation(tokens, mapping, file_id, pos, w) ==
    LET orig_start == mapping[pos + 1]
        orig_end   == mapping[Min2(pos + w - 1, Len(mapping) - 1) + 1]
    IN  Loc(file_id, tokens[orig_start].line, tokens[orig_end].line, pos, w)

RECURSIVE AddWindows(_, _, _, _, _, _, _)
AddWindows(index, window_hashes, n, tokens, mapping, file_id, w) ==
    IF Evaluated(index) /\ n > Len(window_hashes) THEN index
    ELSE AddWindows(add_hash(index, window_hashes[n][2],
                             WindowLocation(tokens, mapping, file_id,
                                            window_hashes[n][1], w)),
                    window_hashes, n + 1, tokens, mapping, file_id, w)

\* HashIndexBuilder::add_file on the index and its id table
add_file(state, file, use_normalized, w) ==
    IF file.tokens = <<>> THEN state
    ELSE LET paths   == register_file(state.paths, file.path)
             file_id == file_id_of(paths, file.path)
             hashes  == FileTokenHashes(file.tokens, use_normalized)
         IN  IF Len(hashes) < w THEN [index |-> state.index, paths |-> paths]
             ELSE [index |-> AddWindows(state.index, compute_all(hashes, w), 1,
                                        file.tokens, token_mapping(file.tokens),
                                        file_id, w),
                   paths |-> paths]

RECURSIVE BuildLoop(_, _, _, _, _)
\* build_index's loop over tokenized_files
BuildLoop(state, toks, n, use_normalized, w) ==
    IF Evaluated(state) /\ n > Len(toks) THEN state
    ELSE BuildLoop(add_file(state, toks[n], use_normalized, w), toks, n + 1,
                   use_normalized, w)

\* HashIndex::filter_by_size
token_count(pair) == Min2(pair.location_a.token_count, pair.location_b.token_count)

filter_by_size(list, min_tokens) ==
    LET Kept(pair) == token_count(pair) >= min_tokens
    IN  SelectSeq(list, Kept)

\* ------------------------------------------------------------------------
\* SimilarityDetector::classify_clone
\* ------------------------------------------------------------------------
\* the tokenized file whose path the index gives for file_id; the loops at
\* similarity_detector.cpp:377-384 and clone_extender.cpp:293-296 both leave
\* the last file of that path
file_of(toks, paths, file_id) ==
    LET hits == {n \in DOMAIN toks :
                    file_id < Len(paths) /\ toks[n].path = paths[file_id + 1]}
    IN  IF hits = {} THEN [found |-> FALSE, tokens |-> <<>>]
        ELSE [found |-> TRUE,
              tokens |-> toks[CHOOSE n \in hits : \A m \in hits : m <= n].tokens]

\* the test of similarity_detector.cpp:415 with the normalized hashes
normalized_hashes_differ(tok_a, tok_b) == tok_a.normalized_hash # tok_b.normalized_hash

\* similarity_detector.cpp:415, clone_extender.cpp:271
original_hashes_differ(tok_a, tok_b) == tok_a.original_hash # tok_b.original_hash

\* the loops of similarity_detector.cpp:411-427 and clone_extender.cpp:268-275
all_original_match(tokens_a, start_a, tokens_b, start_b, count) ==
    \A i \in 0..count - 1 :
        ~original_hashes_differ(tokens_a[start_a + i + 1], tokens_b[start_b + i + 1])

classify_clone(pair, toks, paths, detect_type2) ==
    LET file_a  == file_of(toks, paths, pair.location_a.file_id)
        file_b  == file_of(toks, paths, pair.location_b.file_id)
        start_a == pair.location_a.token_start
        count_a == pair.location_a.token_count
        start_b == pair.location_b.token_start
        count_b == pair.location_b.token_count
    IN  IF ~detect_type2 THEN "TYPE_1"
        ELSE IF ~file_a.found \/ ~file_b.found THEN "TYPE_1"
        ELSE IF \/ start_a + count_a > Len(file_a.tokens)
                \/ start_b + count_b > Len(file_b.tokens) THEN "TYPE_1"
        ELSE IF count_a # count_b THEN "TYPE_2"
        ELSE IF all_original_match(file_a.tokens, start_a, file_b.tokens, start_b, count_a)
             THEN "TYPE_1"
             ELSE "TYPE_2"

\* the classification loop of find_clones (similarity_detector.cpp:268-270)
ClassifyAll(list, toks, paths, detect_type2) ==
    [n \in DOMAIN list |->
        [list[n] EXCEPT !.clone_type = classify_clone(list[n], toks, paths, detect_type2)]]

\* ------------------------------------------------------------------------
\* CloneExtender
\* ------------------------------------------------------------------------
ExtenderLookahead == 10

Zero == [num |-> 0, den |-> 1]

RECURSIVE Gcd(_, _)
Gcd(a, b) == IF b = 0 THEN a ELSE Gcd(b, a % b)

\* static_cast<float>(num) / static_cast<float>(den), kept as the fraction
\* in lowest terms
Quotient(num, den) == [num |-> num \div Gcd(num, den), den |-> den \div Gcd(num, den)]

AtMost(p, q) == p.num * q.den <= q.num * p.den

\* sim < min_similarity (clone_extender.cpp:239)
Less(p, q) == p.num * q.den < q.num * p.den

SameHash(tokens_a, pos_a, tokens_b, pos_b) ==
    tokens_a[pos_a + 1].normalized_hash = tokens_b[pos_b + 1].normalized_hash

Least(S) == CHOOSE g \in S : \A h \in S : g <= h

RECURSIVE AlignLoop(_, _, _, _, _, _, _, _)
\* the loop of alignment_similarity (clone_extender.cpp:78-112): the matches
AlignLoop(tokens_a, tokens_b, pos_a, pos_b, end_a, end_b, max_gap, matches) ==
    IF ~(pos_a < end_a /\ pos_b < end_b) THEN matches
    ELSE IF SameHash(tokens_a, pos_a, tokens_b, pos_b)
    THEN AlignLoop(tokens_a, tokens_b, pos_a + 1, pos_b + 1, end_a, end_b, max_gap,
                   matches + 1)
    ELSE LET ahead_b == {g \in 1..max_gap : /\ pos_b + g < end_b
                                            /\ SameHash(tokens_a, pos_a, tokens_b, pos_b + g)}
             ahead_a == {g \in 1..max_gap : /\ pos_a + g < end_a
                                            /\ SameHash(tokens_a, pos_a + g, tokens_b, pos_b)}
         IN  IF ahead_b # {}
             THEN AlignLoop(tokens_a, tokens_b, pos_a, pos_b + Least(ahead_b), end_a, end_b,
                            max_gap, matches)
             ELSE IF ahead_a # {}
             THEN AlignLoop(tokens_a, tokens_b, pos_a + Least(ahead_a), pos_b, end_a, end_b,
                            max_gap, matches)
             ELSE AlignLoop(tokens_a, tokens_b, pos_a + 1, pos_b + 1, end_a, end_b,
                            max_gap, matches)

alignment_similarity(tokens_a, start_a, count_a, tokens_b, start_b, count_b, max_gap) ==
    IF count_a = 0 \/ count_b = 0 THEN Zero
    ELSE Quotient(AlignLoop(tokens_a, tokens_b, start_a, start_b,
                            Min2(start_a + count_a, Len(tokens_a)),
                            Min2(start_b + count_b, Len(tokens_b)), max_gap, 0),
                  Max2(count_a, count_b))

\* the first <<la, lb>> in the order of the two nested loops
FirstResync(S) ==
    CHOOSE r \in S : \A q \in S : r[1] < q[1] \/ (r[1] = q[1] /\ r[2] <= q[2])

RECURSIVE extend_forward(_, _, _, _, _, _)
\* clone_extender.cpp:118-162, extended carried along
extend_forward(tokens_a, pos_a, tokens_b, pos_b, cfg, extended) ==
    IF ~(pos_a < Len(tokens_a) /\ pos_b < Len(tokens_b)) THEN extended
    ELSE IF SameHash(tokens_a, pos_a, tokens_b, pos_b)
    THEN extend_forward(tokens_a, pos_a + 1, tokens_b, pos_b + 1, cfg, extended + 1)
    ELSE LET resyncs ==
                 {r \in (0..cfg.lookahead) \X (0..cfg.lookahead) :
                     /\ pos_a + r[1] < Len(tokens_a)
                     /\ pos_b + r[2] < Len(tokens_b)
                     /\ ~(r[1] = 0 /\ r[2] = 0)
                     /\ SameHash(tokens_a, pos_a + r[1], tokens_b, pos_b + r[2])
                     /\ r[1] <= cfg.max_gap
                     /\ r[2] <= cfg.max_gap}
         IN  IF resyncs = {} THEN extended
             ELSE extend_forward(tokens_a, pos_a + FirstResync(resyncs)[1],
                                 tokens_b, pos_b + FirstResync(resyncs)[2], cfg, extended)

RECURSIVE extend_backward(_, _, _, _, _, _)
\* clone_extender.cpp:164-205, extended carried along
extend_backward(tokens_a, pos_a, tokens_b, pos_b, cfg, extended) ==
    IF ~(pos_a > 0 /\ pos_b > 0) THEN extended
    ELSE LET check_a == pos_a - 1
             check_b == pos_b - 1
         IN  IF SameHash(tokens_a, check_a, tokens_b, check_b)
             THEN extend_backward(tokens_a, pos_a - 1, tokens_b, pos_b - 1, cfg,
                                  extended + 1)
             ELSE LET resyncs ==
                          {r \in (0..cfg.lookahead) \X (0..cfg.lookahead) :
                              /\ check_a >= r[1]
                              /\ check_b >= r[2]
                              /\ ~(r[1] = 0 /\ r[2] = 0)
                              /\ SameHash(tokens_a, check_a - r[1], tokens_b, check_b - r[2])
                              /\ r[1] <= cfg.max_gap
                              /\ r[2] <= cfg.max_gap}
                  IN  IF resyncs = {} THEN extended
                      ELSE extend_backward(tokens_a, check_a - FirstResync(resyncs)[1],
                                           tokens_b, check_b - FirstResync(resyncs)[2],
                                           cfg, extended)

\* CloneExtender::extend under Config cfg
extend(pair, tokens_a, tokens_b, cfg) ==
    LET back_ext == extend_backward(tokens_a, pair.location_a.token_start,
                                    tokens_b, pair.location_b.token_start, cfg, 0)
        fwd_ext  == extend_forward(tokens_a,
                        pair.location_a.token_start + pair.location_a.token_count,
                        tokens_b,
                        pair.location_b.token_start + pair.location_b.token_count,
                        cfg, 0)
        start_a  == pair.location_a.token_start - back_ext
        start_b  == pair.location_b.token_start - back_ext
        end_a    == pair.location_a.token_start + pair.location_a.token_count + fwd_ext
        end_b    == pair.location_b.token_start + pair.location_b.token_count + fwd_ext
        sim      == alignment_similarity(tokens_a, start_a, end_a - start_a,
                                         tokens_b, start_b, end_b - start_b, cfg.max_gap)
        count    == Min2(end_a - start_a, end_b - start_b)
    IN  IF Less(sim, cfg.min_similarity) THEN pair
        ELSE [pair EXCEPT
                !.location_a.token_start = start_a,
                !.location_a.token_count = end_a - start_a,
                !.location_b.token_start = start_b,
                !.location_b.token_count = end_b - start_b,
                !.similarity = sim,
                !.location_a.start_line =
                    IF start_a < Len(tokens_a) THEN tokens_a[start_a + 1].line ELSE @,
                !.location_a.end_line =
                    IF end_a > 0 /\ end_a <= Len(tokens_a) THEN tokens_a[end_a].line ELSE @,
                !.location_b.start_line =
                    IF start_b < Len(tokens_b) THEN tokens_b[start_b + 1].line ELSE @,
                !.location_b.end_line =
                    IF end_b > 0 /\ end_b <= Len(tokens_b) THEN tokens_b[end_b].line ELSE @,
                !.clone_type =
                    IF ~Less(sim, One)
                    THEN IF all_original_match(tokens_a, start_a, tokens_b, start_b, count)
                         THEN "TYPE_1" ELSE "TYPE_2"
                    ELSE "TYPE_3"]

\* a pair without its files is left out
DropUnextended(extended_pairs, pair) == extended_pairs

\* clone_extender.cpp:306-309
KeepUnextended(extended_pairs, pair) == Append(extended_pairs, pair)

RECURSIVE ExtendLoop(_, _, _, _, _, _)
\* the loop of extend_all (clone_extender.cpp:298-317)
ExtendLoop(list, n, toks, paths, cfg, extended_pairs) ==
    IF Evaluated(extended_pairs) /\ n > Len(list) THEN extended_pairs
    ELSE LET pair   == list[n]
             file_a == file_of(toks, paths, pair.location_a.file_id)
             file_b == file_of(toks, paths, pair.location_b.file_id)
             extended == extend(pair, file_a.tokens, file_b.tokens, cfg)
         IN  IF ~file_a.found \/ ~file_b.found
             THEN ExtendLoop(list, n + 1, toks, paths, cfg,
                             KeepUnextended(extended_pairs, pair))
             ELSE IF token_count(extended) >= cfg.min_tokens
             THEN ExtendLoop(list, n + 1, toks, paths, cfg, Append(extended_pairs, extended))
             ELSE ExtendLoop(list, n + 1, toks, paths, cfg, extended_pairs)

extend_all(list, toks, paths, cfg) == ExtendLoop(list, 1, toks, paths, cfg, <<>>)

\* the Config find_clones hands to the extender (similarity_detector.cpp:274-278)
ext_config(config) ==
    [max_gap |-> config.max_gap_tokens, min_similarity |-> config.similarity_threshold,
     min_tokens |-> config.min_clone_tokens, lookahead |-> ExtenderLookahead]

\* the final sort of find_clones (similarity_detector.cpp:285-287), largest
\* first; pairs of equal size as in SortPairs
RECURSIVE InsertBySize(_, _, _)
InsertBySize(sorted, p, n) ==
    IF n > Len(sorted) THEN Append(sorted, p)
    ELSE IF token_count(p) > token_count(sorted[n])
         THEN SubSeq(sorted, 1, n - 1) \o <<p>> \o SubSeq(sorted, n, Len(sorted))
         ELSE InsertBySize(sorted, p, n + 1)

RECURSIVE SortBySizeKeepingTies(_, _, _)
SortBySizeKeepingTies(list, n, sorted) ==
    IF Evaluated(sorted) /\ n > Len(list) THEN sorted
    ELSE SortBySizeKeepingTies(list, n + 1, InsertBySize(sorted, list[n], 1))

SortBySize(list, ties) ==
    IF ties = "kept" THEN SortBySizeKeepingTies(list, 1, <<>>)
    ELSE SortBySizeKeepingTies(Reverse(list), 1, <<>>)

\* ------------------------------------------------------------------------
\* The token reads of CloneExtender::extend
\* ------------------------------------------------------------------------
\* the <<la, lb>> a resync search visits: all of them, or those up to the
\* first accepted one
Visited(cands, accepted) ==
    IF accepted = {} THEN cands
    ELSE LET first == FirstResync(accepted)
         IN  {r \in cands : r[1] < first[1] \/ (r[1] = first[1] /\ r[2] <= first[2])}

ReadsInRange(reads, tokens_a, tokens_b) ==
    \A r \in reads : r[2] >= 0 /\ r[2] < Len(IF r[1] = "a" THEN tokens_a ELSE tokens_b)

RECURSIVE BackwardReads(_, _, _, _, _, _)
\* the indices extend_backward reads (clone_extender.cpp:170-202), up to and
\* with the first one outside its array
BackwardReads(tokens_a, pos_a, tokens_b, pos_b, cfg, reads) ==
    IF ~(pos_a > 0 /\ pos_b > 0) THEN reads
    ELSE LET check_a == pos_a - 1
             check_b == pos_b - 1
             here    == reads \cup {<<"a", check_a>>, <<"b", check_b>>}
         IN  IF check_a >= Len(tokens_a) \/ check_b >= Len(tokens_b) THEN here
             ELSE IF SameHash(tokens_a, check_a, tokens_b, check_b)
             THEN BackwardReads(tokens_a, pos_a - 1, tokens_b, pos_b - 1, cfg, here)
             ELSE LET cands ==
                          {r \in (0..cfg.lookahead) \X (0..cfg.lookahead) :
                              /\ check_a >= r[1]
                              /\ check_b >= r[2]
                              /\ ~(r[1] = 0 /\ r[2] = 0)}
                      resyncs ==
                          {r \in cands :
                              /\ SameHash(tokens_a, check_a - r[1], tokens_b, check_b - r[2])
                              /\ r[1] <= cfg.max_gap
                              /\ r[2] <= cfg.max_gap}
                      seen == here
                                \cup {<<"a", check_a - r[1]>> : r \in Visited(cands, resyncs)}
                                \cup {<<"b", check_b - r[2]>> : r \in Visited(cands, resyncs)}
                  IN  IF resyncs = {} THEN seen
                      ELSE BackwardReads(tokens_a, check_a - FirstResync(resyncs)[1],
                                         tokens_b, check_b - FirstResync(resyncs)[2],
                                         cfg, seen)

RECURSIVE ForwardReads(_, _, _, _, _, _)
\* the indices extend_forward reads (clone_extender.cpp:126-159)
ForwardReads(tokens_a, pos_a, tokens_b, pos_b, cfg, reads) ==
    IF ~(pos_a < Len(tokens_a) /\ pos_b < Len(tokens_b)) THEN reads
    ELSE LET here == reads \cup {<<"a", pos_a>>, <<"b", pos_b>>}
         IN  IF SameHash(tokens_a, pos_a, tokens_b, pos_b)
             THEN ForwardReads(tokens_a, pos_a + 1, tokens_b, pos_b + 1, cfg, here)
             ELSE LET cands ==
                          {r \in (0..cfg.lookahead) \X (0..cfg.lookahead) :
                              /\ pos_a + r[1] < Len(tokens_a)
                              /\ pos_b + r[2] < Len(tokens_b)
                              /\ ~(r[1] = 0 /\ r[2] = 0)}
                      resyncs ==
                          {r \in cands :
                              /\ SameHash(tokens_a, pos_a + r[1], tokens_b, pos_b + r[2])
                              /\ r[1] <= cfg.max_gap
                              /\ r[2] <= cfg.max_gap}
                      seen == here
                                \cup {<<"a", pos_a + r[1]>> : r \in Visited(cands, resyncs)}
                                \cup {<<"b", pos_b + r[2]>> : r \in Visited(cands, resyncs)}
                  IN  IF resyncs = {} THEN seen
                      ELSE ForwardReads(tokens_a, pos_a + FirstResync(resyncs)[1],
                                        tokens_b, pos_b + FirstResync(resyncs)[2], cfg, seen)

RECURSIVE AlignReads(_, _, _, _, _, _, _, _)
\* the indices alignment_similarity reads (clone_extender.cpp:78-112)
AlignReads(tokens_a, tokens_b, pos_a, pos_b, end_a, end_b, max_gap, reads) ==
    IF ~(pos_a < end_a /\ pos_b < end_b) THEN reads
    ELSE LET here == reads \cup {<<"a", pos_a>>, <<"b", pos_b>>}
         IN  IF SameHash(tokens_a, pos_a, tokens_b, pos_b)
             THEN AlignReads(tokens_a, tokens_b, pos_a + 1, pos_b + 1, end_a, end_b,
                             max_gap, here)
             ELSE LET in_b    == {g \in 1..max_gap : pos_b + g < end_b}
                      ahead_b == {g \in in_b : SameHash(tokens_a, pos_a, tokens_b, pos_b + g)}
                      in_a    == {g \in 1..max_gap : pos_a + g < end_a}
                      ahead_a == {g \in in_a : SameHash(tokens_a, pos_a + g, tokens_b, pos_b)}
                  IN  IF ahead_b # {}
                      THEN AlignReads(tokens_a, tokens_b, pos_a, pos_b + Least(ahead_b),
                                      end_a, end_b, max_gap,
                                      here \cup {<<"b", pos_b + g>> :
                                                   g \in {h \in in_b : h <= Least(ahead_b)}})
                      ELSE IF ahead_a # {}
                      THEN AlignReads(tokens_a, tokens_b, pos_a + Least(ahead_a), pos_b,
                                      end_a, end_b, max_gap,
                                      here \cup {<<"b", pos_b + g>> : g \in in_b}
                                           \cup {<<"a", pos_a + g>> :
                                                   g \in {h \in in_a : h <= Least(ahead_a)}})
                      ELSE AlignReads(tokens_a, tokens_b, pos_a + 1, pos_b + 1,
                                      end_a, end_b, max_gap,
                                      here \cup {<<"b", pos_b + g>> : g \in in_b}
                                           \cup {<<"a", pos_a + g>> : g \in in_a})

\* the indices CloneExtender::extend reads in tokens_a and tokens_b.  What
\* follows a read outside an array is undefined and is not followed.
ExtendReads(pair, tokens_a, tokens_b, cfg) ==
    LET back == BackwardReads(tokens_a, pair.location_a.token_start,
                              tokens_b, pair.location_b.token_start, cfg, {})
    IN  IF ~ReadsInRange(back, tokens_a, tokens_b) THEN back
        ELSE
        LET back_ext == extend_backward(tokens_a, pair.location_a.token_start,
                                        tokens_b, pair.location_b.token_start, cfg, 0)
            seed_end_a == pair.location_a.token_start + pair.location_a.token_count
            seed_end_b == pair.location_b.token_start + pair.location_b.token_count
            fwd_ext  == extend_forward(tokens_a, seed_end_a, tokens_b, seed_end_b, cfg, 0)
            start_a  == pair.location_a.token_start - back_ext
            start_b  == pair.location_b.token_start - back_ext
            end_a    == seed_end_a + fwd_ext
            end_b    == seed_end_b + fwd_ext
            sim      == alignment_similarity(tokens_a, start_a, end_a - start_a,
                                             tokens_b, start_b, end_b - start_b, cfg.max_gap)
            count    == Min2(end_a - start_a, end_b - start_b)
            \* the comparison loop of clone_extender.cpp:270-275 stops at the
            \* first difference
            compared == {i \in 0..count - 1 :
                            \A j \in 0..i - 1 :
                                ~original_hashes_differ(tokens_a[start_a + j + 1],
                                                        tokens_b[start_b + j + 1])}
        IN  back
              \cup ForwardReads(tokens_a, seed_end_a, tokens_b, seed_end_b, cfg, {})
              \cup (IF end_a = start_a \/ end_b = start_b THEN {}
                    ELSE AlignReads(tokens_a, tokens_b, start_a, start_b,
                                    Min2(end_a, Len(tokens_a)), Min2(end_b, Len(tokens_b)),
                                    cfg.max_gap, {}))
              \cup (IF Less(sim, cfg.min_similarity) THEN {}
                    ELSE (IF start_a < Len(tokens_a) THEN {<<"a", start_a>>} ELSE {})
                           \cup (IF end_a > 0 /\ end_a <= Len(tokens_a)
                                 THEN {<<"a", end_a - 1>>} ELSE {})
                           \cup (IF start_b < Len(tokens_b) THEN {<<"b", start_b>>} ELSE {})
                           \cup (IF end_b > 0 /\ end_b <= Len(tokens_b)
                                 THEN {<<"b", end_b - 1>>} ELSE {})
                           \cup (IF Less(sim, One) THEN {}
                                 ELSE {<<"a", start_a + i>> : i \in compared}
                                        \cup {<<"b", start_b + i>> : i \in compared}))

\* ------------------------------------------------------------------------
\* The files the analysis is driven with
\* ------------------------------------------------------------------------
IdX == [type |-> "IDENTIFIER", original_hash |-> 101, normalized_hash |-> 1]
IdY == [type |-> "IDENTIFIER", original_hash |-> 102, normalized_hash |-> 1]
KwK == [type |-> "KEYWORD", original_hash |-> 201, normalized_hash |-> 201]
KwL == [type |-> "KEYWORD", original_hash |-> 202, normalized_hash |-> 202]
KwM == [type |-> "KEYWORD", original_hash |-> 203, normalized_hash |-> 203]
Nl  == [type |-> "NEWLINE", original_hash |-> 300, normalized_hash |-> 300]

\* the tokens of the given kinds on the given lines
TokensOf(kinds, lines) ==
    [n \in 1..Len(kinds) |->
        Token(kinds[n].type, kinds[n].original_hash, kinds[n].normalized_hash, lines[n])]

\* token sequences as the normalizers emit them: lines never decrease
FileShapes ==
    {TokensOf(<<KwK, KwL, KwM>>, <<1, 2, 3>>),
     TokensOf(<<KwL, KwK, KwM>>, <<1, 2, 3>>),
     TokensOf(<<IdX, IdX, IdY>>, <<1, 2, 3>>),
     TokensOf(<<KwK, Nl, IdY, KwM>>, <<1, 1, 2, 2>>)}

\* lists of files with distinct paths, at most MaxReadable of them readable
InputLists ==
    UNION {{fs \in [1..n -> [path : {0}, readable : BOOLEAN, tokens : FileShapes \cup {<<>>}]] :
              /\ \A i \in 1..n : fs[i].readable = (fs[i].tokens # <<>>)
              /\ Cardinality({i \in 1..n : fs[i].readable}) \in 1..MaxReadable} :
           n \in 1..MaxFiles}

WithPaths(fs) == [i \in 1..Len(fs) |-> [fs[i] EXCEPT !.path = i]]

\* ------------------------------------------------------------------------
\* Specification of the analysis: tokenize_files, build_index, find_clones
\* ------------------------------------------------------------------------
MergeGapInFindClones == 5

InitPipeline ==
    /\ RestIdle
    /\ HashIdle
    /\ index_ = <<>>
    /\ pool_size \in 1..MaxThreads
    /\ seq_done = FALSE
    /\ seq_results = <<>>
    /\ par_pc = "idle"
    /\ chunk_pos = <<>>
    /\ thread_results = <<>>
    /\ par_results = <<>>
    /\ \E fs \in InputLists : files = WithPaths(fs)
    /\ config_ \in [window_size : {1, 2}, min_clone_tokens : {2},
                     similarity_threshold : {SevenTenths},
                     detect_type2 : BOOLEAN, detect_type3 : BOOLEAN,
                     max_gap_tokens : {5}]
    /\ pc = "tokenize"
    /\ results = <<>>
    /\ file_paths_ = <<>>
    /\ tokenized_files = <<>>
    /\ pairs = <<>>
    /\ sort_ties \in {"kept", "reversed"}
    /\ merge_in = <<>>
    /\ merge_gap = 0
    /\ merge_pc = 0
    /\ merged1 = <<>>
    /\ merged2 = <<>>

\* SimilarityDetector::build_index
BuildIndex ==
    /\ pc = "tokenized"
    /\ LET built == BuildLoop([index |-> index_, paths |-> file_paths_], tokenized_files,
                              1, config_.detect_type2, config_.window_size)
       IN  /\ index_' = built.index
           /\ file_paths_' = built.paths
    /\ pc' = "indexed"
    /\ UNCHANGED <<files, config_, results, tokenized_files, pairs>>
    /\ UNCHANGED <<pool_size, seq_done, seq_results, par_pc, chunk_pos, thread_results, par_results>>
    /\ UNCHANGED <<restVars, hashVars, mergeVars>>

\* find_clones, the enumeration (similarity_detector.cpp:254-259).  Below
\* WorkThreshold work items or with one thread find_clone_pairs_parallel is
\* find_clone_pairs.
FindPairs ==
    /\ pc = "indexed"
    /\ \/ ~use_parallel(files)
       \/ Len(work_items(index_)) < WorkThreshold
       \/ pool_size <= 1
    /\ pairs' = find_clone_pairs(index_)
    /\ pc' = "paired"
    /\ UNCHANGED <<files, config_, results, file_paths_, tokenized_files>>
    /\ UNCHANGED <<restVars, hashVars, pairVars, mergeVars>>

\* find_clones, the merge (similarity_detector.cpp:262)
MergePairs ==
    /\ pc = "paired"
    /\ pairs' = merge_adjacent_clones(pairs, MergeGapInFindClones, sort_ties)
    /\ pc' = "merged"
    /\ UNCHANGED <<files, config_, results, file_paths_, tokenized_files>>
    /\ UNCHANGED <<restVars, hashVars, pairVars, mergeVars>>

\* find_clones, the size filter (similarity_detector.cpp:265)
FilterPairs ==
    /\ pc = "merged"
    /\ pairs' = filter_by_size(pairs, config_.min_clone_tokens)
    /\ pc' = "filtered"
    /\ UNCHANGED <<files, config_, results, file_paths_, tokenized_files>>
    /\ UNCHANGED <<restVars, hashVars, pairVars, mergeVars>>

\* find_clones, the classification (similarity_detector.cpp:268-270)
ClassifyPairs ==
    /\ pc = "filtered"
    /\ pairs' = ClassifyAll(pairs, tokenized_files, file_paths_, config_.detect_type2)
    /\ pc' = "classified"
    /\ UNCHANGED <<files, config_, results, file_paths_, tokenized_files>>
    /\ UNCHANGED <<restVars, hashVars, pairVars, mergeVars>>

\* find_clones, the extension (similarity_detector.cpp:273-282)
ExtendPairs ==
    /\ pc = "classified"
    /\ config_.detect_type3
    /\ pairs' = extend_all(pairs, tokenized_files, file_paths_, ext_config(config_))
    /\ pc' = "extended"
    /\ UNCHANGED <<files, config_, results, file_paths_, tokenized_files>>
    /\ UNCHANGED <<restVars, hashVars, pairVars, mergeVars>>

\* find_clones, the final sort (similarity_detector.cpp:285-287)
SortClones ==
    /\ \/ pc = "extended"
       \/ pc = "classified" /\ ~config_.detect_type3
    /\ pairs' = SortBySize(pairs, sort_ties)
    /\ pc' = "done"
    /\ UNCHANGED <<files, config_, results, file_paths_, tokenized_files>>
    /\ UNCHANGED <<restVars, hashVars, pairVars, mergeVars>>

NextPipeline ==
    \/ TokenizeSequential
    \/ TokenizeSubmit
    \/ \E t \in 1..MaxThreads + 1 : TokenizeTask(t)
    \/ RegisterFiles
    \/ BuildIndex
    \/ FindPairs
    \/ MergePairs
    \/ FilterPairs
    \/ ClassifyPairs
    \/ ExtendPairs
    \/ SortClones

SpecPipeline == InitPipeline /\ [][NextPipeline]_vars

\* ------------------------------------------------------------------------
\* Properties of the analysis
\* ------------------------------------------------------------------------
PairStages == {"paired", "merged", "filtered", "classified", "extended", "done"}

\* a location with the path of its file in place of the id
PlacedSide(loc, paths) ==
    [path |-> paths[loc.file_id + 1], start_line |-> loc.start_line,
     end_line |-> loc.end_line, token_start |-> loc.token_start,
     token_count |-> loc.token_count]

\* the clones of a list as a set: type, similarity and the two sides, in
\* either order
CloneSet(list, paths) ==
    {[clone_type |-> list[n].clone_type, similarity |-> list[n].similarity,
      sides |-> {PlacedSide(list[n].location_a, paths),
                 PlacedSide(list[n].location_b, paths)}] : n \in DOMAIN list}

\* the run on the same files and configuration in which the files are
\* tokenized in input order
InOrderRun ==
    LET toks     == TokenizeInOrder(files)
        built    == BuildLoop([index |-> <<>>, paths |-> RegisterAll(toks, 1, <<>>)],
                              toks, 1, config_.detect_type2, config_.window_size)
        merged   == merge_adjacent_clones(find_clone_pairs(built.index),
                                          MergeGapInFindClones, sort_ties)
        typed    == ClassifyAll(filter_by_size(merged, config_.min_clone_tokens),
                                toks, built.paths, config_.detect_type2)
        extended == IF config_.detect_type3
                    THEN extend_all(typed, toks, built.paths, ext_config(config_))
                    ELSE typed
    IN  [pairs |-> SortBySize(extended, sort_ties), paths |-> built.paths]

\* C5: two runs of the whole analysis on the same input files with the same
\* configuration report the same set of clones (types, location pairs,
\* similarities), whatever the schedule of the tokenization tasks: every
\* finished run reports the clones of the run that tokenizes in input order.
C5_RunsReportSameClones ==
    pc = "done" => CloneSet(pairs, file_paths_) = CloneSet(InOrderRun.pairs, InOrderRun.paths)

LinesDisjoint(a, b) == a.end_line < b.start_line \/ b.end_line < a.start_line

\* C6: at every stage (enumerated, merged, extended) the two locations of a
\* pair that lie in the same file have disjoint line ranges.
C6_SameFileSidesDisjoint ==
    pc \in PairStages =>
        \A n \in DOMAIN pairs :
            pairs[n].location_a.file_id = pairs[n].location_b.file_id =>
                LinesDisjoint(pairs[n].location_a, pairs[n].location_b)

\* the tokens of the tokenized file a location refers to
TokensAt(loc) ==
    LET n == CHOOSE m \in DOMAIN tokenized_files :
                 tokenized_files[m].path = file_paths_[loc.file_id + 1]
    IN  tokenized_files[n].tokens

WithinFile(loc) ==
    /\ loc.file_id < Len(file_paths_)
    /\ \E m \in DOMAIN tokenized_files :
           tokenized_files[m].path = file_paths_[loc.file_id + 1]
    /\ loc.token_start + loc.token_count <= Len(TokensAt(loc))
    /\ loc.end_line >= loc.start_line

\* C7: every location add_file enters in the index and every location of a
\* pair after the merge and after the extension lies within the tokens of
\* its file (token_start + token_count <= |tokens|) and does not end on a
\* line before the one it starts on, structural tokens or not.
C7_LocationsWithinFile ==
    pc \in PairStages \cup {"indexed"} =>
        /\ \A e \in DOMAIN index_ : \A l \in DOMAIN index_[e].locations :
               WithinFile(index_[e].locations[l])
        /\ \A n \in DOMAIN pairs :
               WithinFile(pairs[n].location_a) /\ WithinFile(pairs[n].location_b)

HasStructural(tokens) == \E i \in DOMAIN tokens : IsStructural(tokens[i])

\* an extended pair one side of which lies in a file with a structural token
\* and reaches past the number of its tokens that were hashed
C7_Witness ==
    /\ pc = "extended"
    /\ \E n \in DOMAIN pairs :
           /\ HasStructural(TokensAt(pairs[n].location_a))
           /\ pairs[n].location_a.token_start + pairs[n].location_a.token_count
                  > Len(token_mapping(TokensAt(pairs[n].location_a)))

RangesMatch(pair) ==
    \A i \in 1..pair.location_a.token_count :
        TokensAt(pair.location_a)[pair.location_a.token_start + i].original_hash
            = TokensAt(pair.location_b)[pair.location_b.token_start + i].original_hash

TypeByCountsThenOriginals(pair) ==
    IF pair.location_a.token_count # pair.location_b.token_count THEN "TYPE_2"
    ELSE IF RangesMatch(pair) THEN "TYPE_1" ELSE "TYPE_2"

\* C10, with the configuration it depends on: when detect_type2 is enabled
\* a pair left by the merge and the filter is classified Type-2 if the token
\* counts of its sides differ, else Type-1 if the original hashes of the two
\* token ranges agree at every position and Type-2 if not; when detect_type2
\* is disabled every pair is classified Type-1.
C10_ClassifiedByCountsThenOriginals ==
    pc = "classified" =>
        \A n \in DOMAIN pairs :
            pairs[n].clone_type = IF config_.detect_type2
                                  THEN TypeByCountsThenOriginals(pairs[n])
                                  ELSE "TYPE_1"

\* detect_type2 enabled, and a pair of equal counts classified Type-2
C10_Witness ==
    /\ pc = "classified"
    /\ config_.detect_type2
    /\ \E n \in DOMAIN pairs :
           /\ pairs[n].location_a.token_count = pairs[n].location_b.token_count
           /\ pairs[n].clone_type = "TYPE_2"

\* C10 as stated, whatever the configuration: Type-2 if the counts differ,
\* else Type-1 exactly if the original hashes agree at every position.
C10_AsStated ==
    pc = "classified" =>
        \A n \in DOMAIN pairs : pairs[n].clone_type = TypeByCountsThenOriginals(pairs[n])

\* ------------------------------------------------------------------------
\* Specification of the extender called on one seed: CloneExtender::extend
\* ------------------------------------------------------------------------
\* the token arrays of up to MaxExtTokens tokens of the given kinds, token n
\* on line n
TokenArrays(kinds) ==
    UNION {{TokensOf(ks, [i \in 1..n |-> i]) : ks \in [1..n -> kinds]} : n \in 0..MaxExtTokens}

\* seed locations: any start up to the length of the longest array, any count
SeedLocations(file_id) ==
    {Loc(file_id, ts + 1, ts + tc, ts, tc) :
        ts \in 0..MaxExtTokens, tc \in 0..MaxSeedCount}

ExtConfigs ==
    [max_gap : 0..MaxExtGap, min_similarity : {Half, SevenTenths, One},
     min_tokens : {2}, lookahead : {ExtenderLookahead}]

InitExtend ==
    /\ HashIdle
    /\ PairsIdle
    /\ PipeIdle
    /\ MergeIdle
    /\ TpIdle
    /\ LaterIdle
    /\ ext_cfg \in ExtConfigs
    /\ \E tokens_a \in TokenArrays({IdX, KwK}), tokens_b \in TokenArrays({IdX, IdY, KwK}) :
           ext_files = <<[path |-> 1, tokens |-> tokens_a], [path |-> 2, tokens |-> tokens_b]>>
    /\ ext_paths = <<1, 2>>
    /\ \E loc_a \in SeedLocations(0), loc_b \in SeedLocations(1) :
           ext_seeds = <<NewPair(loc_a, loc_b, 0)>>
    /\ ext_pc = "ready"
    /\ ext_out = <<>>
    /\ ext_reads = {}

\* what a call that read outside an array may leave: no pair (the process
\* is stopped) or a pair of any type
UndefinedOutcomes(seed) ==
    {<<>>} \cup {<<[seed EXCEPT !.clone_type = t]>> : t \in {"TYPE_1", "TYPE_2", "TYPE_3"}}

\* extended = extender.extend(seed, file_a, file_b)
ExtendSeed ==
    /\ ext_pc = "ready"
    /\ LET seed     == ext_seeds[1]
           tokens_a == ext_files[1].tokens
           tokens_b == ext_files[2].tokens
           reads    == ExtendReads(seed, tokens_a, tokens_b, ext_cfg)
       IN  /\ ext_reads' = reads
           /\ IF ReadsInRange(reads, tokens_a, tokens_b)
              THEN ext_out' = <<extend(seed, tokens_a, tokens_b, ext_cfg)>>
              ELSE ext_out' \in UndefinedOutcomes(seed)
    /\ ext_pc' = "extended"
    /\ UNCHANGED <<ext_cfg, ext_files, ext_paths, ext_seeds>>
    /\ UNCHANGED <<hashVars, pairVars, pipeVars, mergeVars, tpVars, laterVars>>

NextExtend == ExtendSeed

SpecExtend == InitExtend /\ [][NextExtend]_vars

\* the one seed, its two token arrays and the pair returned
TheSeed == ext_seeds[1]
TokensA == ext_files[1].tokens
TokensB == ext_files[2].tokens
Returned == ext_out[1]

\* extend has returned and has read no token outside the arrays
ExtendReturned ==
    /\ ext_pc = "extended"
    /\ ReadsInRange(ext_reads, TokensA, TokensB)

\* the window after the backward and the forward extension of the seed
ExtendedWindow ==
    LET back == extend_backward(TokensA, TheSeed.location_a.token_start,
                                TokensB, TheSeed.location_b.token_start, ext_cfg, 0)
        fwd  == extend_forward(TokensA,
                    TheSeed.location_a.token_start + TheSeed.location_a.token_count,
                    TokensB,
                    TheSeed.location_b.token_start + TheSeed.location_b.token_count,
                    ext_cfg, 0)
    IN  [start_a |-> TheSeed.location_a.token_start - back,
         count_a |-> TheSeed.location_a.token_count + back + fwd,
         start_b |-> TheSeed.location_b.token_start - back,
         count_b |-> TheSeed.location_b.token_count + back + fwd,
         grown   |-> back + fwd > 0]

\* the alignment similarity recomputed over that window
Recomputed ==
    alignment_similarity(TokensA, ExtendedWindow.start_a, ExtendedWindow.count_a,
                         TokensB, ExtendedWindow.start_b, ExtendedWindow.count_b,
                         ext_cfg.max_gap)

BelowThreshold ==
    Recomputed.num * ext_cfg.min_similarity.den < ext_cfg.min_similarity.num * Recomputed.den

ReturnedIsWindow ==
    /\ Returned.location_a.token_start = ExtendedWindow.start_a
    /\ Returned.location_a.token_count = ExtendedWindow.count_a
    /\ Returned.location_b.token_start = ExtendedWindow.start_b
    /\ Returned.location_b.token_count = ExtendedWindow.count_b
    /\ Returned.similarity = Recomputed

\* C11: if the similarity recomputed over the extended window is below
\* min_similarity, extend returns the seed, equal in every field; otherwise
\* it returns the extended pair, whose similarity is at least min_similarity.
C11_BelowThresholdKeepsSeed ==
    ExtendReturned =>
        IF BelowThreshold THEN Returned = TheSeed
        ELSE /\ ReturnedIsWindow
             /\ Returned.similarity.num * ext_cfg.min_similarity.den
                    >= ext_cfg.min_similarity.num * Returned.similarity.den

\* a window that grew is discarded for its similarity
C11_Witness ==
    /\ ExtendReturned
    /\ ExtendedWindow.grown
    /\ BelowThreshold
    /\ Returned = TheSeed

OriginalsMatchOverWindow ==
    \A i \in 1..Min2(ExtendedWindow.count_a, ExtendedWindow.count_b) :
        TokensA[ExtendedWindow.start_a + i].original_hash
            = TokensB[ExtendedWindow.start_b + i].original_hash

\* C12: an accepted extension is Type-3 if its recomputed similarity is
\* below 1.0; if it is exactly 1.0 it is Type-1 when the original hashes of
\* the extended ranges agree at every position and Type-2 when they do not.
C12_TypeOfAcceptedExtension ==
    (ExtendReturned /\ ~BelowThreshold) =>
        Returned.clone_type =
            IF Recomputed.num < Recomputed.den THEN "TYPE_3"
            ELSE IF OriginalsMatchOverWindow THEN "TYPE_1" ELSE "TYPE_2"

\* a window that grew is accepted with similarity 1.0 and is Type-2
C12_Witness ==
    /\ ExtendReturned
    /\ ~BelowThreshold
    /\ ExtendedWindow.grown
    /\ Recomputed.num = Recomputed.den
    /\ Returned.clone_type = "TYPE_2"

\* C13: extend (with extend_backward, extend_forward and
\* alignment_similarity) reads the token arrays only at indices within
\* [0, length), whatever the seed and the arrays.
C13_ReadsWithinArrays ==
    ext_pc = "extended" => ReadsInRange(ext_reads, TokensA, TokensB)

\* the analysis was given two files holding the same function: the same
\* tokens on the same lines, none of them structural, at least a window of
\* them and at least min_clone_tokens
SameFunctionTwice ==
    /\ Len(tokenized_files) = 2
    /\ tokenized_files[1].tokens = tokenized_files[2].tokens
    /\ ~HasStructural(tokenized_files[1].tokens)
    /\ Len(tokenized_files[1].tokens) >= config_.window_size
    /\ Len(tokenized_files[1].tokens) >= config_.min_clone_tokens

CoversFunction(loc) ==
    loc.token_start = 0 /\ loc.token_count = Len(tokenized_files[1].tokens)

\* C15: for two files holding the same function of L tokens (L at least the
\* window size and min_clone_tokens), index, find_clone_pairs, merge,
\* filter_by_size and classify leave exactly one pair: Type-1, similarity
\* 1.0, token_start 0 and token_count L on both sides.
C15_OnePairForSameFunction ==
    (pc = "classified" /\ SameFunctionTwice) =>
        /\ Len(pairs) = 1
        /\ pairs[1].clone_type = "TYPE_1"
        /\ pairs[1].similarity = One
        /\ CoversFunction(pairs[1].location_a)
        /\ CoversFunction(pairs[1].location_b)

\* the hash of the first window of window_size tokens that are not
\* structural, counted from index token_start of the file's own tokens
HashOfWindowAt(loc) ==
    LET raw    == TokensAt(loc)
        rest   == SubSeq(raw, loc.token_start + 1, Len(raw))
        hashes == FileTokenHashes(rest, config_.detect_type2)
    IN  IF Len(hashes) < config_.window_size THEN <<>>
        ELSE <<compute_all(hashes, config_.window_size)[1][2]>>

\* C19: the token_start of every location add_file enters in the index is
\* an index into the file's own token array, structural tokens included:
\* file.tokens[token_start] is the first token of the window that was
\* hashed.
C19_TokenStartIndexesFileTokens ==
    pc = "indexed" =>
        \A e \in DOMAIN index_ : \A l \in DOMAIN index_[e].locations :
            LET loc == index_[e].locations[l]
            IN  /\ loc.token_start < Len(TokensAt(loc))
                /\ ~IsStructural(TokensAt(loc)[loc.token_start + 1])
                /\ HashOfWindowAt(loc) = <<index_[e].hash>>

\* ------------------------------------------------------------------------
\* Specification of the merger called on two pairs of PairLen tokens
\* ------------------------------------------------------------------------
\* PairLen tokens starting at token ts of file f, one token per line
Stretch(f, ts) == Loc(f, ts + 1, ts + PairLen, ts, PairLen)

\* two pairs of the files 0 and fb: the B side of the second starts
\* BSideGap tokens after the end of the B side of the first, the A sides
\* start at a1 and a2
TwoPairs(fb, a1, a2, b1) ==
    <<NewPair(Stretch(0, a1), Stretch(fb, b1), 1),
      NewPair(Stretch(0, a2), Stretch(fb, b1 + PairLen + BSideGap), 2)>>

InitMergeTwo ==
    /\ RestIdle
    /\ HashIdle
    /\ PairsIdle
    /\ PipeIdle
    /\ sort_ties \in {"kept", "reversed"}
    /\ \E fb \in {0, 1}, a1 \in {0, MaxASideShift}, a2 \in 0..(PairLen + 2 * MaxASideShift),
          b1 \in {0, 200} :
           \/ merge_in = TwoPairs(fb, a1, a2, b1)
           \/ merge_in = Reverse(TwoPairs(fb, a1, a2, b1))
    /\ merge_gap = MergeGapInFindClones
    /\ merge_pc = 0
    /\ merged1 = <<>>
    /\ merged2 = <<>>

SpecMergeTwo == InitMergeTwo /\ [][NextMerge]_vars

\* of the two pairs handed in, the one whose B side comes first and the other
EarlierPair ==
    IF merge_in[1].location_b.token_start < merge_in[2].location_b.token_start
    THEN merge_in[1] ELSE merge_in[2]

LaterPair ==
    IF merge_in[1].location_b.token_start < merge_in[2].location_b.token_start
    THEN merge_in[2] ELSE merge_in[1]

\* the tokens between the end of the A side of the one and the start of the
\* A side of the other (negative when they overlap)
ASideDistance ==
    LaterPair.location_a.token_start - EndOf(EarlierPair.location_a)

\* adjacent_a of hash_index.cpp:225-226 for the two pairs
ASidesAdjacent ==
    /\ LaterPair.location_a.token_start <= EndOf(EarlierPair.location_a) + merge_gap
    /\ LaterPair.location_a.token_start >= EarlierPair.location_a.token_start

\* C18: two pairs of the same file pair of 30 tokens on both sides, the B
\* sides 3 tokens apart and the A sides 3 to 5 tokens apart, are merged with
\* max_gap 5 into one pair whose token_count() is at least 63; with A sides
\* closer than that but the second starting after the first, they are
\* merged into one pair whose token_count() is the span of the A sides.
C18_MergedSpanOfBothSides ==
    (merge_pc >= 1 /\ ASidesAdjacent
        /\ LaterPair.location_a.token_start > EarlierPair.location_a.token_start) =>
        /\ Len(merged1) = 1
        /\ merged1[1].location_b.token_count = 2 * PairLen + BSideGap
        /\ merged1[1].location_a.token_count = 2 * PairLen + ASideDistance
        /\ token_count(merged1[1]) = Min2(2 * PairLen + BSideGap, 2 * PairLen + ASideDistance)
        /\ (ASideDistance >= BSideGap => token_count(merged1[1]) >= 63)

\* the A sides four tokens apart: one pair of 63 tokens
C18_Witness ==
    /\ merge_pc >= 1
    /\ ASidesAdjacent
    /\ ASideDistance = BSideGap + 1
    /\ Len(merged1) = 1
    /\ token_count(merged1[1]) = 2 * PairLen + BSideGap
    /\ token_count(merged1[1]) >= 63

\* C18 as stated: whenever the A sides are adjacent, the merge returns one
\* pair of token_count() at least 63.
C18_AsStated ==
    (merge_pc >= 1 /\ ASidesAdjacent) =>
        /\ Len(merged1) = 1
        /\ token_count(merged1[1]) >= 63

\* ------------------------------------------------------------------------
\* Specification of find_clones on tokenized files of given make-up
\* ------------------------------------------------------------------------
\* token hashes a thousand apart, so that no two windows of different tokens
\* share a rolling hash
Kw(n) ==
    [type |-> "KEYWORD", original_hash |-> 1000 * (n + 10),
     normalized_hash |-> 1000 * (n + 10)]
Id(n) == [type |-> "IDENTIFIER", original_hash |-> 1000 * (n + 10), normalized_hash |-> 1]

\* the kinds on consecutive lines, per_line of them on each
OnLines(kinds, per_line) ==
    TokensOf(kinds, [n \in 1..Len(kinds) |-> ((n - 1) \div per_line) + 1])

\* the function that file A holds: FunctionLen tokens, all different
BaseFunctions ==
    {[n \in 1..FunctionLen |-> Kw(n)],
     [n \in 1..FunctionLen |-> IF n % 2 = 0 THEN Kw(n) ELSE Id(n)]}

\* the tokens that file B holds in addition
ExtraTokens ==
    {<<Kw(FunctionLen + 1), Kw(FunctionLen + 2), Kw(FunctionLen + 3)>>,
     <<Id(FunctionLen + 1), Kw(FunctionLen + 2), Id(FunctionLen + 3)>>}

Inserted(kinds, at, extra) ==
    SubSeq(kinds, 1, at) \o extra \o SubSeq(kinds, at + 1, Len(kinds))

\* file A with a function, file B with the function and three more tokens
\* in its middle
InsertedInputs ==
    {<<[path |-> 1, tokens |-> OnLines(base, per_line)],
       [path |-> 2, tokens |-> OnLines(Inserted(base, FunctionLen \div 2, extra), per_line)]>> :
        base \in BaseFunctions, extra \in ExtraTokens, per_line \in {1, 2}}

\* one file: a block of different tokens three times over
CopiedInputs ==
    {<<[path |-> 1,
        tokens |-> OnLines([n \in 1..3 * len |-> Kw(((n - 1) % len) + 1)], per_line)]>> :
        len \in 2..BlockLen, per_line \in {1, 2}}

ScenarioInputs == InsertedInputs \cup CopiedInputs

InitFindClones ==
    /\ RestIdle
    /\ HashIdle
    /\ PairsIdle
    /\ tokenized_files \in ScenarioInputs
    /\ files = [n \in DOMAIN tokenized_files |->
                    [path |-> tokenized_files[n].path, readable |-> TRUE,
                     tokens |-> tokenized_files[n].tokens]]
    /\ file_paths_ = [n \in DOMAIN tokenized_files |-> tokenized_files[n].path]
    /\ results = <<>>
    /\ config_ \in [window_size : {1, 2}, min_clone_tokens : {2},
                     similarity_threshold : {SevenTenths},
                     detect_type2 : BOOLEAN, detect_type3 : BOOLEAN,
                     max_gap_tokens : {5}]
    /\ pc = "tokenized"
    /\ pairs = <<>>
    /\ sort_ties \in {"kept", "reversed"}
    /\ merge_in = <<>>
    /\ merge_gap = 0
    /\ merge_pc = 0
    /\ merged1 = <<>>
    /\ merged2 = <<>>

NextFindClones ==
    \/ BuildIndex
    \/ FindPairs
    \/ MergePairs
    \/ FilterPairs
    \/ ClassifyPairs
    \/ ExtendPairs
    \/ SortClones

SpecFindClones == InitFindClones /\ [][NextFindClones]_vars

\* file B is file A with three more tokens in its middle
ThreeInserted ==
    /\ Len(tokenized_files) = 2
    /\ LET a == tokenized_files[1].tokens
           b == tokenized_files[2].tokens
           at == Len(a) \div 2
           Same(i, j) == /\ a[i].original_hash = b[j].original_hash
                         /\ a[i].normalized_hash = b[j].normalized_hash
       IN  /\ Len(b) = Len(a) + 3
           /\ \A i \in 1..at : Same(i, i)
           /\ \A i \in (at + 1)..Len(a) : Same(i, i + 3)

\* C16: for file A and file B alike but for three more tokens in the middle
\* of B, with detect_type3 set, max_gap 5 and threshold 0.7, find_clones
\* (enumerate, merge, filter, classify, extend) returns exactly one pair, of
\* Type-3 and of similarity at least 0.7 and below 1.0.
C16_OneType3PairForInsertion ==
    (pc = "done" /\ ThreeInserted /\ config_.detect_type3) =>
        /\ Len(pairs) = 1
        /\ pairs[1].clone_type = "TYPE_3"
        /\ ~Less(pairs[1].similarity, SevenTenths)
        /\ Less(pairs[1].similarity, One)

\* the one file is a block of different tokens, at least a window and at
\* least min_clone_tokens long, three times over
ThreeCopies(len) ==
    /\ Len(tokenized_files) = 1
    /\ LET t == tokenized_files[1].tokens
       IN  /\ Len(t) = 3 * len
           /\ \A i, j \in 1..len : i # j => t[i].original_hash # t[j].original_hash
           /\ \A i \in 1..len :
                  /\ t[i + len].original_hash = t[i].original_hash
                  /\ t[i + 2 * len].original_hash = t[i].original_hash
    /\ len >= config_.window_size
    /\ len >= config_.min_clone_tokens

TokenRangesOverlap(a, b) ==
    /\ a.file_id = b.file_id
    /\ a.token_start < b.token_start + b.token_count
    /\ b.token_start < a.token_start + a.token_count

\* C17: for one file that is three copies of a block one after the other,
\* enumeration, merge and filter leave exactly three pairs, none with sides
\* that overlap and none with the same token range on both sides.
C17_ThreePairsForThreeCopies ==
    \A len \in 2..BlockLen :
        (pc = "filtered" /\ ThreeCopies(len)) =>
            /\ Len(pairs) = 3
            /\ \A n \in DOMAIN pairs :
                   ~TokenRangesOverlap(pairs[n].location_a, pairs[n].location_b)

\* ------------------------------------------------------------------------
\* Specification of the extender called on a list: CloneExtender::extend_all
\* ------------------------------------------------------------------------
\* three files of three tokens each, on lines 1, 2, 3
ExtFileValues ==
    <<[path |-> 1, tokens |-> TokensOf(<<IdX, KwK, IdX>>, <<1, 2, 3>>)],
      [path |-> 2, tokens |-> TokensOf(<<IdX, KwK, IdY>>, <<1, 2, 3>>)],
      [path |-> 3, tokens |-> TokensOf(<<KwK, IdX, IdX>>, <<1, 2, 3>>)]>>

\* one-token seeds between any two of the three file ids
SeedValues ==
    {NewPair(Loc(fa, sa + 1, sa + 1, sa, 1), Loc(fb, sb + 1, sb + 1, sb, 1), 0) :
        fa \in 0..2, fb \in 0..2, sa \in 0..1, sb \in 0..1}

InitExtendAll ==
    /\ HashIdle
    /\ PairsIdle
    /\ PipeIdle
    /\ MergeIdle
    /\ TpIdle
    /\ LaterIdle
    /\ ext_cfg \in ExtConfigs
    /\ \E present \in SUBSET (1..3) :
           LET Present(file) == file.path \in present
           IN  ext_files = SelectSeq(ExtFileValues, Present)
    /\ ext_paths \in {<<1, 2>>, <<1, 2, 3>>}
    /\ ext_seeds \in UNION {[1..n -> SeedValues] : n \in 1..MaxSeeds}
    /\ ext_pc = "ready"
    /\ ext_out = <<>>
    /\ ext_reads = {}

\* the reads of the calls of extend that extend_all makes
ExtendAllReads(list, toks, paths, cfg) ==
    UNION {LET file_a == file_of(toks, paths, list[n].location_a.file_id)
               file_b == file_of(toks, paths, list[n].location_b.file_id)
               reads  == ExtendReads(list[n], file_a.tokens, file_b.tokens, cfg)
           IN  IF ~file_a.found \/ ~file_b.found THEN {}
               ELSE {<<n, r[1], r[2], ReadsInRange({r}, file_a.tokens, file_b.tokens)>> :
                        r \in reads} : n \in DOMAIN list}

\* extended_pairs = extender.extend_all(pairs, files, index)
ExtendAll ==
    /\ ext_pc = "ready"
    /\ LET reads == ExtendAllReads(ext_seeds, ext_files, ext_paths, ext_cfg)
       IN  /\ ext_reads' = reads
           /\ IF \A r \in reads : r[4]
              THEN ext_out' = extend_all(ext_seeds, ext_files, ext_paths, ext_cfg)
              ELSE ext_out' \in {<<>>, ext_seeds}
    /\ ext_pc' = "all"
    /\ UNCHANGED <<ext_cfg, ext_files, ext_paths, ext_seeds>>
    /\ UNCHANGED <<hashVars, pairVars, pipeVars, mergeVars, tpVars, laterVars>>

NextExtendAll == ExtendAll

SpecExtendAll == InitExtendAll /\ [][NextExtendAll]_vars

\* the file of a location is not among the files handed to extend_all
FileMissing(loc) ==
    \/ loc.file_id >= Len(ext_paths)
    \/ \A k \in DOMAIN ext_files : ext_files[k].path # ext_paths[loc.file_id + 1]

SeedUnbacked(n) ==
    FileMissing(ext_seeds[n].location_a) \/ FileMissing(ext_seeds[n].location_b)

\* what seed n alone contributes to the output
AloneOutput(n) ==
    IF SeedUnbacked(n) THEN <<ext_seeds[n]>>
    ELSE extend_all(<<ext_seeds[n]>>, ext_files, ext_paths, ext_cfg)

RECURSIVE OutputsInOrder(_)
OutputsInOrder(n) == IF n = 0 THEN <<>> ELSE OutputsInOrder(n - 1) \o AloneOutput(n)

\* C14: extend_all puts a seed one of whose files is not in the file list
\* into its output once and unchanged, and treats every other seed as if it
\* were the only one: the output is, seed by seed and in order, the seed
\* itself if it has no file and else what extend_all returns for it alone.
C14_UnbackedSeedPassesThrough ==
    ext_pc = "all" => ext_out = OutputsInOrder(Len(ext_seeds))

\* a seed without a file next to a seed that extend_all changed
C14_Witness ==
    /\ ext_pc = "all"
    /\ Len(ext_seeds) = 2
    /\ SeedUnbacked(1)
    /\ ~SeedUnbacked(2)
    /\ ext_out = <<ext_seeds[1]>> \o AloneOutput(2)
    /\ AloneOutput(2) # <<ext_seeds[2]>>
    /\ AloneOutput(2) # <<>>

\* ------------------------------------------------------------------------
\* Specification of ThreadPool: submit, worker_thread, ~ThreadPool
\* ------------------------------------------------------------------------
\* ThreadPool::ThreadPool: num_threads workers, each at the top of its loop
InitThreadPool ==
    /\ HashIdle
    /\ PairsIdle
    /\ PipeIdle
    /\ MergeIdle
    /\ ExtIdle
    /\ LaterIdle
    /\ stop_ = FALSE
    /\ tasks_ = <<>>
    /\ active_tasks_ = 0
    /\ \E num_threads \in 1..MaxWorkers :
           workers_ = [w \in 1..num_threads |-> [pc |-> "wait", task |-> 0]]
    /\ submitted = 0
    /\ enqueued = {}
    /\ thrown = {}
    /\ completed = {}
    /\ dtor_pc = "none"
    /\ joined = 0
    /\ left_at_stop = {}

\* submit, by a thread that holds the pool while it is not yet destroyed:
\* under queue_mutex_ it throws if stop_ is set and enqueues otherwise
Submit ==
    /\ dtor_pc # "returned"
    /\ submitted < MaxTasks
    /\ submitted' = submitted + 1
    /\ IF stop_
       THEN /\ thrown' = thrown \cup {submitted + 1}
            /\ UNCHANGED <<tasks_, enqueued>>
       ELSE /\ tasks_' = Append(tasks_, submitted + 1)
            /\ enqueued' = enqueued \cup {submitted + 1}
            /\ UNCHANGED thrown
    /\ UNCHANGED <<stop_, active_tasks_, workers_, completed, dtor_pc, joined, left_at_stop>>
    /\ UNCHANGED <<hashVars, pairVars, pipeVars, mergeVars, extVars, laterVars>>

\* the worker leaves its loop where the queue is found empty after stop_
ExitOnStop(stop, tasks) == stop

\* thread_pool.hpp:218
ShouldExit(stop, tasks) == stop /\ tasks = <<>>

\* worker_thread: the wait is over (stop_ or a task in the queue) and the
\* worker does not return: it pops the front task and counts it active
WorkerTake(w) ==
    /\ workers_[w].pc = "wait"
    /\ stop_ \/ tasks_ # <<>>
    /\ ~ShouldExit(stop_, tasks_)
    /\ tasks_ # <<>>
    /\ workers_' = [workers_ EXCEPT ![w] = [pc |-> "run", task |-> Head(tasks_)]]
    /\ tasks_' = Tail(tasks_)
    /\ active_tasks_' = active_tasks_ + 1
    /\ UNCHANGED <<stop_, submitted, enqueued, thrown, completed, dtor_pc, joined, left_at_stop>>
    /\ UNCHANGED <<hashVars, pairVars, pipeVars, mergeVars, extVars, laterVars>>

\* worker_thread: the wait is over and the worker returns
WorkerExit(w) ==
    /\ workers_[w].pc = "wait"
    /\ stop_ \/ tasks_ # <<>>
    /\ ShouldExit(stop_, tasks_)
    /\ workers_' = [workers_ EXCEPT ![w] = [pc |-> "exited", task |-> 0]]
    /\ UNCHANGED <<stop_, tasks_, active_tasks_, submitted, enqueued, thrown, completed,
                   dtor_pc, joined, left_at_stop>>
    /\ UNCHANGED <<hashVars, pairVars, pipeVars, mergeVars, extVars, laterVars>>

\* worker_thread: task() returns
TaskRun(w) ==
    /\ workers_[w].pc = "run"
    /\ completed' = completed \cup {workers_[w].task}
    /\ workers_' = [workers_ EXCEPT ![w].pc = "ran"]
    /\ UNCHANGED <<stop_, tasks_, active_tasks_, submitted, enqueued, thrown, dtor_pc, joined,
                   left_at_stop>>
    /\ UNCHANGED <<hashVars, pairVars, pipeVars, mergeVars, extVars, laterVars>>

\* worker_thread: the task is counted out under the lock, back to the wait
WorkerDone(w) ==
    /\ workers_[w].pc = "ran"
    /\ active_tasks_' = active_tasks_ - 1
    /\ workers_' = [workers_ EXCEPT ![w] = [pc |-> "wait", task |-> 0]]
    /\ UNCHANGED <<stop_, tasks_, submitted, enqueued, thrown, completed, dtor_pc, joined,
                   left_at_stop>>
    /\ UNCHANGED <<hashVars, pairVars, pipeVars, mergeVars, extVars, laterVars>>

\* ~ThreadPool: stop_ is set under the lock and every waiter is notified
DestructorStop ==
    /\ dtor_pc = "none"
    /\ stop_' = TRUE
    /\ dtor_pc' = "joining"
    /\ left_at_stop' = {tasks_[n] : n \in DOMAIN tasks_}
                           \cup {workers_[w].task : w \in {v \in DOMAIN workers_ :
                                                              workers_[v].pc = "run"}}
    /\ UNCHANGED <<tasks_, active_tasks_, workers_, submitted, enqueued, thrown, completed,
                   joined>>
    /\ UNCHANGED <<hashVars, pairVars, pipeVars, mergeVars, extVars, laterVars>>

\* ~ThreadPool: the join of the next worker returns; after the last one the
\* destructor returns
DestructorJoin ==
    /\ dtor_pc = "joining"
    /\ joined < Len(workers_)
    /\ workers_[joined + 1].pc = "exited"
    /\ joined' = joined + 1
    /\ dtor_pc' = IF joined + 1 = Len(workers_) THEN "returned" ELSE "joining"
    /\ UNCHANGED <<stop_, tasks_, active_tasks_, workers_, submitted, enqueued, thrown,
                   completed, left_at_stop>>
    /\ UNCHANGED <<hashVars, pairVars, pipeVars, mergeVars, extVars, laterVars>>

NextThreadPool ==
    \/ Submit
    \/ \E w \in 1..MaxWorkers : w \in DOMAIN workers_ /\ WorkerTake(w)
    \/ \E w \in 1..MaxWorkers : w \in DOMAIN workers_ /\ WorkerExit(w)
    \/ \E w \in 1..MaxWorkers : w \in DOMAIN workers_ /\ TaskRun(w)
    \/ \E w \in 1..MaxWorkers : w \in DOMAIN workers_ /\ WorkerDone(w)
    \/ DestructorStop
    \/ DestructorJoin

SpecThreadPool == InitThreadPool /\ [][NextThreadPool]_vars

\* The worker threads and the thread in the destructor are scheduled: a
\* worker whose wait can end ends it (stop_ is set under the lock and
\* followed by notify_all, and a worker re-tests the queue before it waits),
\* a task that was started returns, and a join on an exited thread returns.
SpecThreadPoolFair ==
    /\ SpecThreadPool
    /\ \A w \in 1..MaxWorkers :
           /\ WF_vars(w \in DOMAIN workers_ /\ WorkerTake(w))
           /\ WF_vars(w \in DOMAIN workers_ /\ WorkerExit(w))
           /\ WF_vars(w \in DOMAIN workers_ /\ TaskRun(w))
           /\ WF_vars(w \in DOMAIN workers_ /\ WorkerDone(w))
    /\ WF_vars(DestructorJoin)

\* when the destructor has returned nothing enqueued is left undone and
\* every worker has left worker_thread
DrainedAtReturn ==
    dtor_pc = "returned" =>
        /\ enqueued \subseteq completed
        /\ tasks_ = <<>>
        /\ active_tasks_ = 0
        /\ \A w \in DOMAIN workers_ : workers_[w].pc = "exited"

\* with stop_ set a call of submit throws and enqueues nothing
ThrowsOnceStopped ==
    (stop_ /\ submitted' # submitted) =>
        /\ thrown' = thrown \cup {submitted'}
        /\ enqueued' = enqueued
        /\ Len(tasks_') <= Len(tasks_)

\* C20: the destructor drains the queue: once it has set stop_ it returns,
\* by then every task that submit enqueued has run to completion and every worker
\* has exited, and a submit made with stop_ set throws and enqueues nothing.
C20_ShutdownDrainsQueue ==
    /\ []DrainedAtReturn
    /\ [][ThrowsOnceStopped]_vars
    /\ (dtor_pc = "joining") ~> (dtor_pc = "returned")

\* the destructor returned after it found tasks queued, and a submit threw
C20_Witness ==
    /\ dtor_pc = "returned"
    /\ Cardinality(left_at_stop) >= 2
    /\ left_at_stop \subseteq completed
    /\ thrown # {}

\* ------------------------------------------------------------------------
\* Specification of ThreadPool::parallel_for, called from outside the pool
\* ------------------------------------------------------------------------
\* arithmetic of size_t
SizeAdd(a, b) == (a + b) % SizeMod
SizeSub(a, b) == (a - b + SizeMod) % SizeMod
SizeMul(a, b) == (a * b) % SizeMod

\* thread_pool.hpp:86-87
pf_num_tasks == SizeSub(pf_end, pf_begin)
pf_num_workers == Min2(pf_num_tasks, pf_workers)

\* thread_pool.hpp:98
pf_chunk_size == SizeAdd(pf_num_tasks, SizeSub(pf_num_workers, 1)) \div pf_num_workers

\* thread_pool.hpp:103-104
pf_chunk_begin(t) == SizeAdd(pf_begin, SizeMul(t, pf_chunk_size))
pf_chunk_end(t) == Min2(SizeAdd(pf_chunk_begin(t), pf_chunk_size), pf_end)

\* one more invocation of f with index i
Invoked(calls, i) == [calls EXCEPT ![i] = @ + 1]

RECURSIVE InvokedFromTo(_, _, _)
\* the loop for (i = from; i < to; ++i) f(i)
InvokedFromTo(calls, from, to) ==
    IF from >= to THEN calls
    ELSE InvokedFromTo(Invoked(calls, from), from + 1, to)

InitParallelFor ==
    /\ HashIdle
    /\ PairsIdle
    /\ PipeIdle
    /\ MergeIdle
    /\ ExtIdle
    /\ TpIdle
    /\ NzIdle
    /\ XsIdle
    /\ pf_begin \in 0..(SizeMod - 1)
    /\ pf_end \in 0..(SizeMod - 1)
    /\ pf_workers \in 1..MaxPool
    /\ pf_pc = "call"
    /\ pf_t = 0
    /\ pf_chunks = <<>>
    /\ pf_calls = [i \in 0..(SizeMod - 1) |-> 0]

\* if (begin >= end) return
PfReturnEmpty ==
    /\ pf_pc = "call"
    /\ pf_begin >= pf_end
    /\ pf_pc' = "returned"
    /\ UNCHANGED <<pf_begin, pf_end, pf_workers, pf_t, pf_chunks, pf_calls>>
    /\ UNCHANGED <<hashVars, pairVars, pipeVars, mergeVars, extVars, tpVars, nzVars, xsVars>>

\* num_workers <= 1: the caller runs the loop itself
PfSequential ==
    /\ pf_pc = "call"
    /\ pf_begin < pf_end
    /\ pf_num_workers <= 1
    /\ pf_calls' = InvokedFromTo(pf_calls, pf_begin, pf_end)
    /\ pf_pc' = "returned"
    /\ UNCHANGED <<pf_begin, pf_end, pf_workers, pf_t, pf_chunks>>
    /\ UNCHANGED <<hashVars, pairVars, pipeVars, mergeVars, extVars, tpVars, nzVars, xsVars>>

\* the pool is used: the submitting loop starts
PfDivide ==
    /\ pf_pc = "call"
    /\ pf_begin < pf_end
    /\ pf_num_workers > 1
    /\ pf_pc' = "submitting"
    /\ UNCHANGED <<pf_begin, pf_end, pf_workers, pf_t, pf_chunks, pf_calls>>
    /\ UNCHANGED <<hashVars, pairVars, pipeVars, mergeVars, extVars, tpVars, nzVars, xsVars>>

\* one iteration of for (t = 0; t < num_workers; ++t): the chunk is
\* submitted, or the loop is left
PfSubmit ==
    /\ pf_pc = "submitting"
    /\ IF pf_t < pf_num_workers /\ pf_chunk_begin(pf_t) < pf_end
       THEN /\ pf_chunks' = Append(pf_chunks,
                                  [i |-> pf_chunk_begin(pf_t), chunk_end |-> pf_chunk_end(pf_t)])
            /\ pf_t' = pf_t + 1
            /\ UNCHANGED pf_pc
       ELSE /\ pf_pc' = "waiting"
            /\ UNCHANGED <<pf_t, pf_chunks>>
    /\ UNCHANGED <<pf_begin, pf_end, pf_workers, pf_calls>>
    /\ UNCHANGED <<hashVars, pairVars, pipeVars, mergeVars, extVars, tpVars, nzVars, xsVars>>

\* a worker runs one iteration of the loop of chunk task c
PfChunkStep(c) ==
    /\ c \in DOMAIN pf_chunks
    /\ pf_chunks[c].i < pf_chunks[c].chunk_end
    /\ pf_calls' = Invoked(pf_calls, pf_chunks[c].i)
    /\ pf_chunks' = [pf_chunks EXCEPT ![c].i = SizeAdd(@, 1)]
    /\ UNCHANGED <<pf_begin, pf_end, pf_workers, pf_pc, pf_t>>
    /\ UNCHANGED <<hashVars, pairVars, pipeVars, mergeVars, extVars, tpVars, nzVars, xsVars>>

\* every future.get() has returned: parallel_for returns
PfJoin ==
    /\ pf_pc = "waiting"
    /\ \A c \in DOMAIN pf_chunks : pf_chunks[c].i >= pf_chunks[c].chunk_end
    /\ pf_pc' = "returned"
    /\ UNCHANGED <<pf_begin, pf_end, pf_workers, pf_t, pf_chunks, pf_calls>>
    /\ UNCHANGED <<hashVars, pairVars, pipeVars, mergeVars, extVars, tpVars, nzVars, xsVars>>

NextParallelFor ==
    \/ PfReturnEmpty
    \/ PfSequential
    \/ PfDivide
    \/ PfSubmit
    \/ \E c \in 1..MaxPool : PfChunkStep(c)
    \/ PfJoin

SpecParallelFor == InitParallelFor /\ [][NextParallelFor]_vars

\* C21: when parallel_for has returned, f has been invoked exactly once with
\* every index of [begin, end) and with no other index (not at all when
\* begin >= end), for every pool size and every range.
C21_EachIndexOnce ==
    pf_pc = "returned" =>
        \A i \in DOMAIN pf_calls :
            pf_calls[i] = IF pf_begin <= i /\ i < pf_end THEN 1 ELSE 0

\* ------------------------------------------------------------------------
\* CppNormalizer::normalize: the line metrics of a source text
\* (tokenizers/cpp_normalizer.cpp).  The text is a sequence of characters
\* of a small alphabet: an identifier character, a blank, a newline, the
\* two characters that open and close comments, the preprocessor's '#' and
\* the backslash that continues a preprocessor line.
\* ------------------------------------------------------------------------
Letter == "a"
Space == " "
Newline == "nl"
Slash == "/"
Star == "*"
Hash == "#"
Backslash == "bs"
Nul == "nul"

SourceChars == {Letter, Space, Newline, Slash, Star, Hash, Backslash}

SourceTexts == UNION {[1..n -> SourceChars] : n \in 0..MaxSrcLen}

\* TokenizerState::eof, peek, peek_next and advance
eof(src, st) == st.pos >= Len(src)

peek(src, st) == IF eof(src, st) THEN Nul ELSE src[st.pos + 1]

peek_next(src, st) == IF st.pos + 1 >= Len(src) THEN Nul ELSE src[st.pos + 2]

advance(src, st) ==
    LET c == peek(src, st)
    IN  [pos |-> st.pos + 1,
         line |-> IF c = Newline THEN st.line + 1 ELSE st.line,
         column |-> IF c = Newline THEN 1 ELSE (st.column + 1) % 65536,
         at_line_start |-> IF c = Newline THEN TRUE
                           ELSE IF c # Space THEN FALSE
                           ELSE st.at_line_start]

is_identifier_start(c) == c = Letter

is_operator_char(c) == c \in {Slash, Star, Hash}

\* skip_single_line_comment: up to, not including, the newline
RECURSIVE skip_single_line_comment(_, _)
skip_single_line_comment(src, st) ==
    IF ~eof(src, st) /\ peek(src, st) # Newline
    THEN skip_single_line_comment(src, advance(src, st))
    ELSE st

\* the loop of skip_multi_line_comment: up to and including the closing
\* "*/", or to the end of the text
RECURSIVE CommentBody(_, _)
CommentBody(src, st) ==
    IF eof(src, st) THEN st
    ELSE IF peek(src, st) = Star /\ peek_next(src, st) = Slash
         THEN advance(src, advance(src, st))
         ELSE CommentBody(src, advance(src, st))

skip_multi_line_comment(src, st) == CommentBody(src, advance(src, advance(src, st)))

\* the loop of skip_preprocessor: up to, not including, the first newline
\* that no backslash precedes
RECURSIVE PreprocessorBody(_, _)
PreprocessorBody(src, st) ==
    IF eof(src, st) \/ peek(src, st) = Newline THEN st
    ELSE IF peek(src, st) = Backslash
         THEN LET after == advance(src, st)
              IN  IF ~eof(src, after) /\ peek(src, after) = Newline
                  THEN PreprocessorBody(src, advance(src, after))
                  ELSE PreprocessorBody(src, after)
         ELSE PreprocessorBody(src, advance(src, st))

skip_preprocessor(src, st) == PreprocessorBody(src, advance(src, st))

\* parse_identifier_or_keyword: the identifier characters
RECURSIVE parse_identifier_or_keyword(_, _)
parse_identifier_or_keyword(src, st) ==
    IF ~eof(src, st) /\ peek(src, st) = Letter
    THEN parse_identifier_or_keyword(src, advance(src, st))
    ELSE st

\* parse_operator: of the operators this alphabet can spell only "##" has
\* two characters
parse_operator(src, st) ==
    IF st.pos + 1 < Len(src) /\ peek(src, st) = Hash /\ peek_next(src, st) = Hash
    THEN advance(src, advance(src, st))
    ELSE advance(src, st)

\* the line that ends is counted once: code, else comment, else blank
CountedLine ==
    [code_lines |-> code_lines + (IF line_has_code THEN 1 ELSE 0),
     comment_lines |-> comment_lines + (IF ~line_has_code /\ line_has_comment THEN 1 ELSE 0),
     blank_lines |-> blank_lines + (IF ~line_has_code /\ ~line_has_comment THEN 1 ELSE 0)]

NotCounted ==
    [code_lines |-> code_lines, comment_lines |-> comment_lines, blank_lines |-> blank_lines]

\* handle_line_metrics, called at the top of every iteration
handle_line_metrics ==
    IF nz_state.line # current_line
    THEN [current_line |-> nz_state.line,
          line_has_code |-> FALSE,
          line_has_comment |-> FALSE,
          counts |-> IF current_line > 0 THEN CountedLine ELSE NotCounted]
    ELSE [current_line |-> current_line,
          line_has_code |-> line_has_code,
          line_has_comment |-> line_has_comment,
          counts |-> NotCounted]

InitNormalize ==
    /\ HashIdle
    /\ PairsIdle
    /\ PipeIdle
    /\ MergeIdle
    /\ ExtIdle
    /\ TpIdle
    /\ PfIdle
    /\ XsIdle
    /\ nz_source \in SourceTexts
    /\ nz_state = [pos |-> 0, line |-> 1, column |-> 1, at_line_start |-> TRUE]
    /\ current_line = 0
    /\ line_has_code = FALSE
    /\ line_has_comment = FALSE
    /\ code_lines = 0
    /\ comment_lines = 0
    /\ blank_lines = 0
    /\ total_lines = 0
    /\ nz_pc = "scanning"

\* one iteration of while (!state.eof()): the line metrics, then the one
\* process_ step that applies, which leaves the scanner at st and may mark
\* the line as code or as comment
Iteration(st, sees_code, sees_comment) ==
    LET m == handle_line_metrics
    IN  /\ nz_state' = st
        /\ current_line' = m.current_line
        /\ line_has_code' = (m.line_has_code \/ sees_code)
        /\ line_has_comment' = (m.line_has_comment \/ sees_comment)
        /\ code_lines' = m.counts.code_lines
        /\ comment_lines' = m.counts.comment_lines
        /\ blank_lines' = m.counts.blank_lines
        /\ UNCHANGED <<nz_source, total_lines, nz_pc>>
        /\ UNCHANGED <<hashVars, pairVars, pipeVars, mergeVars, extVars, tpVars, pfVars, xsVars>>

Scanning == nz_pc = "scanning" /\ ~eof(nz_source, nz_state)

AtPreprocessor == peek(nz_source, nz_state) = Hash /\ nz_state.at_line_start

AtComment ==
    /\ peek(nz_source, nz_state) = Slash
    /\ peek_next(nz_source, nz_state) \in {Slash, Star}

skip_whitespace_and_newline ==
    /\ Scanning
    /\ peek(nz_source, nz_state) \in {Space, Newline}
    /\ Iteration(advance(nz_source, nz_state), FALSE, FALSE)

process_preprocessor ==
    /\ Scanning
    /\ AtPreprocessor
    /\ Iteration(skip_preprocessor(nz_source, nz_state), TRUE, FALSE)

process_comment ==
    /\ Scanning
    /\ AtComment
    /\ Iteration(IF peek_next(nz_source, nz_state) = Slash
                 THEN skip_single_line_comment(nz_source, nz_state)
                 ELSE skip_multi_line_comment(nz_source, nz_state),
                 FALSE, TRUE)

process_identifier ==
    /\ Scanning
    /\ is_identifier_start(peek(nz_source, nz_state))
    /\ Iteration(parse_identifier_or_keyword(nz_source, nz_state), TRUE, FALSE)

process_operator ==
    /\ Scanning
    /\ is_operator_char(peek(nz_source, nz_state))
    /\ ~AtPreprocessor
    /\ ~AtComment
    /\ Iteration(parse_operator(nz_source, nz_state), TRUE, FALSE)

\* "Unknown - skip"
SkipUnknown ==
    /\ Scanning
    /\ peek(nz_source, nz_state) = Backslash
    /\ Iteration(advance(nz_source, nz_state), FALSE, FALSE)

\* after the loop: the final line is counted and total_lines is set
NormalizeReturn ==
    /\ nz_pc = "scanning"
    /\ eof(nz_source, nz_state)
    /\ LET counts == IF current_line > 0 THEN CountedLine ELSE NotCounted
       IN  /\ code_lines' = counts.code_lines
           /\ comment_lines' = counts.comment_lines
           /\ blank_lines' = counts.blank_lines
    /\ total_lines' = IF nz_source = <<>> THEN 0
                      ELSE IF nz_state.column = 1 /\ nz_state.line > 1
                           THEN nz_state.line - 1
                           ELSE nz_state.line
    /\ nz_pc' = "returned"
    /\ UNCHANGED <<nz_source, nz_state, current_line, line_has_code, line_has_comment>>
    /\ UNCHANGED <<hashVars, pairVars, pipeVars, mergeVars, extVars, tpVars, pfVars, xsVars>>

NextNormalize ==
    \/ skip_whitespace_and_newline
    \/ process_preprocessor
    \/ process_comment
    \/ process_identifier
    \/ process_operator
    \/ SkipUnknown
    \/ NormalizeReturn

SpecNormalize == InitNormalize /\ [][NextNormalize]_vars

\* C22: when normalize has returned, every line of the source text has been
\* counted as exactly one of code, comment or blank, so that
\* code_lines + comment_lines + blank_lines = total_lines, also for a text
\* whose comments span several lines.
C22_EveryLineCountedOnce ==
    nz_pc = "returned" => code_lines + comment_lines + blank_lines = total_lines

\* ------------------------------------------------------------------------
\* The sweep of merge_adjacent_clones, pair by pair
\* ------------------------------------------------------------------------
\* the two files of a pair, whichever side they are on
FilePair(pair) ==
    <<Min2(pair.location_a.file_id, pair.location_b.file_id),
      Max2(pair.location_a.file_id, pair.location_b.file_id)>>

\* the locations of nxt on the sides they have in cur
InOrientationOf(cur, nxt) ==
    IF cur.location_a.file_id = nxt.location_a.file_id
    THEN [location_a |-> nxt.location_a, location_b |-> nxt.location_b]
    ELSE [location_a |-> nxt.location_b, location_b |-> nxt.location_a]

\* nxt starts in [cur.start, cur.end + max_gap]
StartsWithin(nxt_loc, cur_loc, max_gap) ==
    /\ cur_loc.token_start <= nxt_loc.token_start
    /\ nxt_loc.token_start <= EndOf(cur_loc) + max_gap

ToBeMerged(cur, nxt, max_gap) ==
    /\ FilePair(cur) = FilePair(nxt)
    /\ StartsWithin(InOrientationOf(cur, nxt).location_a, cur.location_a, max_gap)
    /\ StartsWithin(InOrientationOf(cur, nxt).location_b, cur.location_b, max_gap)

\* a side that ends at the larger end and the larger end_line and starts
\* where it started
Widened(cur_loc, nxt_loc) ==
    [cur_loc EXCEPT
        !.token_count = Max2(EndOf(cur_loc), EndOf(nxt_loc)) - cur_loc.token_start,
        !.end_line = Max2(cur_loc.end_line, nxt_loc.end_line)]

MergedPair(cur, nxt) ==
    [cur EXCEPT
        !.location_a = Widened(cur.location_a, InOrientationOf(cur, nxt).location_a),
        !.location_b = Widened(cur.location_b, InOrientationOf(cur, nxt).location_b)]

RECURSIVE PairByPair(_, _, _, _, _)
\* the list the sweep yields when it merges cur with the i-th pair exactly
\* when ToBeMerged, and as MergedPair
PairByPair(sorted, i, cur, merged, max_gap) ==
    IF Evaluated(merged) /\ Evaluated(cur) /\ i > Len(sorted)
    THEN Append(merged, cur)
    ELSE IF ToBeMerged(cur, sorted[i], max_gap)
         THEN PairByPair(sorted, i + 1, MergedPair(cur, sorted[i]), merged, max_gap)
         ELSE PairByPair(sorted, i + 1, sorted[i], Append(merged, cur), max_gap)

SweptPairByPair(list, max_gap, ties) ==
    IF list = <<>> THEN list
    ELSE PairByPair(SortPairs(list, ties), 2, SortPairs(list, ties)[1], <<>>, max_gap)

\* C23: merge_adjacent_clones merges the current pair with the next pair of
\* the sorted list exactly when the two have the same file pair and the next
\* pair, taken in the current pair's orientation, starts on each side within
\* [current start, current end + max_gap]; the merged pair ends on each side
\* at the larger of the two ends and of the two end_lines and keeps the
\* current pair's token_start and start_line; pairs of different file pairs
\* are never merged.
C23_MergesExactlyAdjacentPairs ==
    /\ merge_pc >= 1 => merged1 = SweptPairByPair(merge_in, merge_gap, sort_ties)
    /\ merge_pc >= 2 => merged2 = SweptPairByPair(merged1, merge_gap, sort_ties)

\* a call that merged two pairs of opposite orientation across a gap and
\* kept a pair of another file pair apart
C23_Witness ==
    /\ merge_pc >= 1
    /\ merge_gap >= 1
    /\ Len(merge_in) = 3
    /\ Len(merged1) = 2
    /\ FilePair(merged1[1]) # FilePair(merged1[2])
    /\ \E m, n \in DOMAIN merge_in :
          /\ FilePair(merge_in[m]) = FilePair(merge_in[n])
          /\ merge_in[m].location_a.file_id # merge_in[n].location_a.file_id
    /\ \E n \in DOMAIN merged1 :
          merged1[n].location_b.token_count > merged1[n].location_a.token_count

\* ------------------------------------------------------------------------
\* CloneExtender::extend followed loop iteration by loop iteration
\* (clone_extender.cpp:60-280): the call of extend_backward, the call of
\* extend_forward, the call of alignment_similarity, and the return of the
\* seed or of the extended pair.
\* ------------------------------------------------------------------------
\* seed locations of tc tokens: any start up to the length of the longest
\* array
StepSeedLocations(file_id, tc) ==
    {Loc(file_id, ts + 1, ts + tc, ts, tc) : ts \in 0..MaxExtTokens}

StepConfigs ==
    [max_gap : 0..MaxExtGap, min_similarity : {Half},
     min_tokens : {2}, lookahead : {0, ExtenderLookahead}]

InitExtendSteps ==
    /\ HashIdle
    /\ PairsIdle
    /\ PipeIdle
    /\ MergeIdle
    /\ TpIdle
    /\ PfIdle
    /\ NzIdle
    /\ ext_cfg \in StepConfigs
    /\ \E tokens_a \in TokenArrays({IdX, KwK}), tokens_b \in TokenArrays({IdX, KwK}) :
           ext_files = <<[path |-> 1, tokens |-> tokens_a], [path |-> 2, tokens |-> tokens_b]>>
    /\ ext_paths = <<1, 2>>
    /\ \E tc \in {0, 1} :
           \E loc_a \in StepSeedLocations(0, tc), loc_b \in StepSeedLocations(1, tc) :
               ext_seeds = <<NewPair(loc_a, loc_b, 0)>>
    /\ ext_pc = "steps"
    /\ ext_out = <<>>
    /\ ext_reads = {}
    /\ xs_pc = "call"
    /\ xs_pos_a = 0
    /\ xs_pos_b = 0
    /\ xs_extended = 0
    /\ xs_back_ext = 0
    /\ xs_fwd_ext = 0
    /\ xs_matches = 0

SeedEndA == TheSeed.location_a.token_start + TheSeed.location_a.token_count
SeedEndB == TheSeed.location_b.token_start + TheSeed.location_b.token_count

\* the inputs, the result and everything outside the extender stay as they are
LoopStep ==
    /\ UNCHANGED extVars
    /\ UNCHANGED <<hashVars, pairVars, pipeVars, mergeVars, tpVars, pfVars, nzVars>>

\* extend is entered and calls extend_backward on the seed's starts
\* (clone_extender.cpp:215-221)
ExtendCall ==
    /\ xs_pc = "call"
    /\ xs_pc' = "backward"
    /\ xs_pos_a' = TheSeed.location_a.token_start
    /\ xs_pos_b' = TheSeed.location_b.token_start
    /\ xs_extended' = 0
    /\ UNCHANGED <<xs_back_ext, xs_fwd_ext, xs_matches>>
    /\ LoopStep

\* if (la == 0 && lb == 0) continue
SkipsNoToken(la, lb) == la = 0 /\ lb = 0

\* the gap is acceptable when the A side's is
GapAcceptableOnA(la, lb, max_gap) == la <= max_gap

\* if (la <= config_.max_gap && lb <= config_.max_gap)
GapAcceptable(la, lb, max_gap) == la <= max_gap /\ lb <= max_gap

\* ---- extend_backward (clone_extender.cpp:164-205) ----
BackwardInLoop == xs_pc = "backward" /\ xs_pos_a > 0 /\ xs_pos_b > 0

\* check_a and check_b are tokens of the arrays
BackwardReadable == xs_pos_a - 1 < Len(TokensA) /\ xs_pos_b - 1 < Len(TokensB)

\* the <<la, lb>> the two loops reach and whose gap is acceptable
BackwardOffsets ==
    {r \in (0..ext_cfg.lookahead) \X (0..ext_cfg.lookahead) :
        /\ xs_pos_a - 1 >= r[1]
        /\ xs_pos_b - 1 >= r[2]
        /\ ~SkipsNoToken(r[1], r[2])
        /\ GapAcceptable(r[1], r[2], ext_cfg.max_gap)}

BackwardResyncs ==
    {r \in BackwardOffsets :
        SameHash(TokensA, xs_pos_a - 1 - r[1], TokensB, xs_pos_b - 1 - r[2])}

\* the similarity is computed next
StraightToRescoring == "rescoring"

\* what extend does once extend_backward has returned: it calls
\* extend_forward (clone_extender.cpp:225)
AfterBackward == "forward"

\* extend_backward returns extended; extend subtracts it from the starts and
\* calls extend_forward on the seed's ends (clone_extender.cpp:221-225)
BackwardReturns ==
    /\ xs_pc' = AfterBackward
    /\ xs_back_ext' = xs_extended
    /\ xs_pos_a' = SeedEndA
    /\ xs_pos_b' = SeedEndB
    /\ xs_extended' = 0
    /\ UNCHANGED <<xs_fwd_ext, xs_matches>>
    /\ LoopStep

BackwardTo(new_pos_a, new_pos_b, new_extended) ==
    /\ xs_pos_a' = new_pos_a
    /\ xs_pos_b' = new_pos_b
    /\ xs_extended' = new_extended
    /\ UNCHANGED <<xs_pc, xs_back_ext, xs_fwd_ext, xs_matches>>
    /\ LoopStep

BackwardMatch ==
    /\ BackwardInLoop
    /\ BackwardReadable
    /\ SameHash(TokensA, xs_pos_a - 1, TokensB, xs_pos_b - 1)
    /\ BackwardTo(xs_pos_a - 1, xs_pos_b - 1, xs_extended + 1)

BackwardResync ==
    /\ BackwardInLoop
    /\ BackwardReadable
    /\ ~SameHash(TokensA, xs_pos_a - 1, TokensB, xs_pos_b - 1)
    /\ BackwardResyncs # {}
    /\ BackwardTo(xs_pos_a - 1 - FirstResync(BackwardResyncs)[1],
                  xs_pos_b - 1 - FirstResync(BackwardResyncs)[2], xs_extended)

\* if (!resynced) break
BackwardBreak ==
    /\ BackwardInLoop
    /\ BackwardReadable
    /\ ~SameHash(TokensA, xs_pos_a - 1, TokensB, xs_pos_b - 1)
    /\ BackwardResyncs = {}
    /\ BackwardReturns

\* pos_a > 0 && pos_b > 0 no longer holds
BackwardEnd ==
    /\ xs_pc = "backward"
    /\ ~BackwardInLoop
    /\ BackwardReturns

\* tokens_a[check_a] or tokens_b[check_b] is read outside its array: the
\* process is stopped, or the iteration ends in one of the ways an iteration
\* can end, as the values read happen to decide
BackwardUndefined ==
    /\ BackwardInLoop
    /\ ~BackwardReadable
    /\ \/ /\ xs_pc' = "stopped"
          /\ UNCHANGED <<xs_pos_a, xs_pos_b, xs_extended, xs_back_ext, xs_fwd_ext, xs_matches>>
          /\ LoopStep
       \/ BackwardTo(xs_pos_a - 1, xs_pos_b - 1, xs_extended + 1)
       \/ \E r \in BackwardOffsets :
              BackwardTo(xs_pos_a - 1 - r[1], xs_pos_b - 1 - r[2], xs_extended)
       \/ BackwardReturns

\* ---- extend_forward (clone_extender.cpp:118-162) ----
ForwardInLoop ==
    xs_pc = "forward" /\ xs_pos_a < Len(TokensA) /\ xs_pos_b < Len(TokensB)

ForwardResyncs ==
    {r \in (0..ext_cfg.lookahead) \X (0..ext_cfg.lookahead) :
        /\ xs_pos_a + r[1] < Len(TokensA)
        /\ xs_pos_b + r[2] < Len(TokensB)
        /\ ~SkipsNoToken(r[1], r[2])
        /\ SameHash(TokensA, xs_pos_a + r[1], TokensB, xs_pos_b + r[2])
        /\ GapAcceptable(r[1], r[2], ext_cfg.max_gap)}

\* extend_forward returns extended; extend adds it to the ends and calls
\* alignment_similarity on the window (clone_extender.cpp:225-236)
ForwardReturns ==
    /\ xs_pc' = "rescoring"
    /\ xs_fwd_ext' = xs_extended
    /\ xs_pos_a' = TheSeed.location_a.token_start - xs_back_ext
    /\ xs_pos_b' = TheSeed.location_b.token_start - xs_back_ext
    /\ xs_matches' = 0
    /\ UNCHANGED <<xs_extended, xs_back_ext>>
    /\ LoopStep

ForwardTo(new_pos_a, new_pos_b, new_extended) ==
    /\ xs_pos_a' = new_pos_a
    /\ xs_pos_b' = new_pos_b
    /\ xs_extended' = new_extended
    /\ UNCHANGED <<xs_pc, xs_back_ext, xs_fwd_ext, xs_matches>>
    /\ LoopStep

ForwardMatch ==
    /\ ForwardInLoop
    /\ SameHash(TokensA, xs_pos_a, TokensB, xs_pos_b)
    /\ ForwardTo(xs_pos_a + 1, xs_pos_b + 1, xs_extended + 1)

ForwardResync ==
    /\ ForwardInLoop
    /\ ~SameHash(TokensA, xs_pos_a, TokensB, xs_pos_b)
    /\ ForwardResyncs # {}
    /\ ForwardTo(xs_pos_a + FirstResync(ForwardResyncs)[1],
                 xs_pos_b + FirstResync(ForwardResyncs)[2], xs_extended)

ForwardBreak ==
    /\ ForwardInLoop
    /\ ~SameHash(TokensA, xs_pos_a, TokensB, xs_pos_b)
    /\ ForwardResyncs = {}
    /\ ForwardReturns

ForwardEnd ==
    /\ xs_pc = "forward"
    /\ ~ForwardInLoop
    /\ ForwardReturns

\* the B side's end is left where the seed ends
SeedEndOfB(end_b, fwd_ext) == end_b

\* end_b += fwd_ext (clone_extender.cpp:227)
ExtendedEndB(end_b, fwd_ext) == end_b + fwd_ext

\* ---- alignment_similarity on the window (clone_extender.cpp:60-116) ----
WindowStartA == TheSeed.location_a.token_start - xs_back_ext
WindowStartB == TheSeed.location_b.token_start - xs_back_ext
WindowCountA == SeedEndA + xs_fwd_ext - WindowStartA
WindowCountB == ExtendedEndB(SeedEndB, xs_fwd_ext) - WindowStartB
AlignEndA == Min2(WindowStartA + WindowCountA, Len(TokensA))
AlignEndB == Min2(WindowStartB + WindowCountB, Len(TokensB))

AlignInLoop ==
    /\ xs_pc = "rescoring"
    /\ WindowCountA # 0
    /\ WindowCountB # 0
    /\ xs_pos_a < AlignEndA
    /\ xs_pos_b < AlignEndB

AheadInB ==
    {g \in 1..ext_cfg.max_gap : /\ xs_pos_b + g < AlignEndB
                                /\ SameHash(TokensA, xs_pos_a, TokensB, xs_pos_b + g)}

AheadInA ==
    {g \in 1..ext_cfg.max_gap : /\ xs_pos_a + g < AlignEndA
                                /\ SameHash(TokensA, xs_pos_a + g, TokensB, xs_pos_b)}

AlignTo(new_pos_a, new_pos_b, new_matches) ==
    /\ xs_pos_a' = new_pos_a
    /\ xs_pos_b' = new_pos_b
    /\ xs_matches' = new_matches
    /\ UNCHANGED <<xs_pc, xs_extended, xs_back_ext, xs_fwd_ext>>
    /\ LoopStep

\* the position is left where it is
Stay(pos) == pos

\* if (!found) { ++pos_a; ++pos_b; }
AfterMismatch(pos) == pos + 1

AlignMatch ==
    /\ AlignInLoop
    /\ SameHash(TokensA, xs_pos_a, TokensB, xs_pos_b)
    /\ AlignTo(xs_pos_a + 1, xs_pos_b + 1, xs_matches + 1)

AlignLookAheadB ==
    /\ AlignInLoop
    /\ ~SameHash(TokensA, xs_pos_a, TokensB, xs_pos_b)
    /\ AheadInB # {}
    /\ AlignTo(xs_pos_a, xs_pos_b + Least(AheadInB), xs_matches)

AlignLookAheadA ==
    /\ AlignInLoop
    /\ ~SameHash(TokensA, xs_pos_a, TokensB, xs_pos_b)
    /\ AheadInB = {}
    /\ AheadInA # {}
    /\ AlignTo(xs_pos_a + Least(AheadInA), xs_pos_b, xs_matches)

AlignAdvance ==
    /\ AlignInLoop
    /\ ~SameHash(TokensA, xs_pos_a, TokensB, xs_pos_b)
    /\ AheadInB = {}
    /\ AheadInA = {}
    /\ AlignTo(AfterMismatch(xs_pos_a), AfterMismatch(xs_pos_b), xs_matches)

\* what alignment_similarity returns once its loop has ended
StepSim ==
    IF WindowCountA = 0 \/ WindowCountB = 0 THEN Zero
    ELSE Quotient(xs_matches, Max2(WindowCountA, WindowCountB))

\* the pair extend builds from the window (clone_extender.cpp:243-279)
extended_pair(pair, tokens_a, tokens_b, start_a, start_b, end_a, end_b, sim) ==
    [pair EXCEPT
        !.location_a.token_start = start_a,
        !.location_a.token_count = end_a - start_a,
        !.location_b.token_start = start_b,
        !.location_b.token_count = end_b - start_b,
        !.similarity = sim,
        !.location_a.start_line =
            IF start_a < Len(tokens_a) THEN tokens_a[start_a + 1].line ELSE @,
        !.location_a.end_line =
            IF end_a > 0 /\ end_a <= Len(tokens_a) THEN tokens_a[end_a].line ELSE @,
        !.location_b.start_line =
            IF start_b < Len(tokens_b) THEN tokens_b[start_b + 1].line ELSE @,
        !.location_b.end_line =
            IF end_b > 0 /\ end_b <= Len(tokens_b) THEN tokens_b[end_b].line ELSE @,
        !.clone_type =
            IF ~Less(sim, One)
            THEN IF all_original_match(tokens_a, start_a, tokens_b, start_b,
                                       Min2(end_a - start_a, end_b - start_b))
                 THEN "TYPE_1" ELSE "TYPE_2"
            ELSE "TYPE_3"]

ExtendReturns(state, pair) ==
    /\ xs_pc' = state
    /\ ext_out' = <<pair>>
    /\ UNCHANGED <<xs_pos_a, xs_pos_b, xs_extended, xs_back_ext, xs_fwd_ext, xs_matches>>
    /\ UNCHANGED <<ext_cfg, ext_files, ext_paths, ext_seeds, ext_pc, ext_reads>>
    /\ UNCHANGED <<hashVars, pairVars, pipeVars, mergeVars, tpVars, pfVars, nzVars>>

\* if (sim < config_.min_similarity) return pair
RejectExtension ==
    /\ xs_pc = "rescoring"
    /\ ~AlignInLoop
    /\ Less(StepSim, ext_cfg.min_similarity)
    /\ ExtendReturns("rejected", TheSeed)

AcceptExtension ==
    /\ xs_pc = "rescoring"
    /\ ~AlignInLoop
    /\ ~Less(StepSim, ext_cfg.min_similarity)
    /\ ExtendReturns("accepted",
                     extended_pair(TheSeed, TokensA, TokensB, WindowStartA, WindowStartB,
                                   SeedEndA + xs_fwd_ext,
                                   ExtendedEndB(SeedEndB, xs_fwd_ext), StepSim))

NextExtendSteps ==
    \/ ExtendCall
    \/ BackwardMatch
    \/ BackwardResync
    \/ BackwardBreak
    \/ BackwardEnd
    \/ BackwardUndefined
    \/ ForwardMatch
    \/ ForwardResync
    \/ ForwardBreak
    \/ ForwardEnd
    \/ AlignMatch
    \/ AlignLookAheadB
    \/ AlignLookAheadA
    \/ AlignAdvance
    \/ RejectExtension
    \/ AcceptExtension

SpecExtendSteps == InitExtendSteps /\ [][NextExtendSteps]_vars

\* extend runs on: a loop iteration that can be taken is taken
SpecExtendStepsFair == SpecExtendSteps /\ WF_vars(NextExtendSteps)

\* the offset pairs of [0..lookahead] x [0..lookahead] other than (0, 0) at
\* which the tokens of A and B match and that skip at most max_gap tokens
\* on either side
MatchingOffsets ==
    {r \in (0..ext_cfg.lookahead) \X (0..ext_cfg.lookahead) :
        /\ r # <<0, 0>>
        /\ xs_pos_a + r[1] < Len(TokensA)
        /\ xs_pos_b + r[2] < Len(TokensB)
        /\ SameHash(TokensA, xs_pos_a + r[1], TokensB, xs_pos_b + r[2])
        /\ r[1] <= ext_cfg.max_gap
        /\ r[2] <= ext_cfg.max_gap}

\* smallest la first, then smallest lb
RowMajorFirst(S) ==
    CHOOSE r \in S : \A q \in S : r[1] < q[1] \/ (r[1] = q[1] /\ r[2] <= q[2])

ForwardContinues(new_pos_a, new_pos_b, new_extended) ==
    /\ xs_pc' = "forward"
    /\ xs_pos_a' = new_pos_a
    /\ xs_pos_b' = new_pos_b
    /\ xs_extended' = new_extended

ForwardIterationAsStated ==
    IF ForwardInLoop /\ SameHash(TokensA, xs_pos_a, TokensB, xs_pos_b)
    THEN ForwardContinues(xs_pos_a + 1, xs_pos_b + 1, xs_extended + 1)
    ELSE IF ForwardInLoop /\ MatchingOffsets # {}
    THEN /\ ForwardContinues(xs_pos_a + RowMajorFirst(MatchingOffsets)[1],
                             xs_pos_b + RowMajorFirst(MatchingOffsets)[2], xs_extended)
         /\ xs_pos_a' - xs_pos_a <= ext_cfg.max_gap
         /\ xs_pos_b' - xs_pos_b <= ext_cfg.max_gap
    ELSE /\ xs_pc' = "rescoring"
         /\ xs_fwd_ext' = xs_extended

\* C24: extend_forward starts at the end of the seed on both sides; while
\* the normalized hashes match it advances both positions by one; on a
\* mismatch it moves to the first offset pair (la, lb) other than (0, 0), in
\* row-major order within [0..lookahead] x [0..lookahead], at which the
\* tokens match and la <= max_gap and lb <= max_gap, and goes on; if there
\* is none it stops.  No resynchronisation skips more than max_gap tokens
\* on either side.
C24_ForwardResyncsRowMajor ==
    [][/\ (xs_pc = "backward" /\ xs_pc' = "forward") =>
              (xs_pos_a' = SeedEndA /\ xs_pos_b' = SeedEndB /\ xs_extended' = 0)
       /\ xs_pc = "forward" => ForwardIterationAsStated]_vars

\* extend_forward has skipped a token on one side only and has matched the
\* tokens behind it
C24_Witness ==
    /\ xs_pc = "forward"
    /\ ext_cfg.max_gap >= 1
    /\ xs_pos_a - SeedEndA # xs_pos_b - SeedEndB
    /\ xs_extended >= 1

\* the seed starts within both token arrays
StartsInArrays ==
    /\ TheSeed.location_a.token_start <= Len(TokensA)
    /\ TheSeed.location_b.token_start <= Len(TokensB)

\* C25: extend_backward(A, start_a, B, start_b) returns the count that
\* extend_forward returns on the reversed arrays at the mirrored positions
\* (|A| - start_a, |B| - start_b).
C25_BackwardMirrorsForward ==
    (xs_pc = "forward" /\ StartsInArrays) =>
        xs_back_ext = extend_forward(Reverse(TokensA),
                                     Len(TokensA) - TheSeed.location_a.token_start,
                                     Reverse(TokensB),
                                     Len(TokensB) - TheSeed.location_b.token_start,
                                     ext_cfg, 0)

\* the changes of state of a call of extend; "stopped" is the end of a call
\* whose backward extension read outside a token array
OrderInCode ==
    {<<"call", "backward">>, <<"backward", "forward">>, <<"forward", "rescoring">>,
     <<"rescoring", "accepted">>, <<"rescoring", "rejected">>, <<"backward", "stopped">>}

OrderAsStated ==
    {<<"call", "forward">>, <<"forward", "backward">>, <<"backward", "rescoring">>,
     <<"rescoring", "accepted">>, <<"rescoring", "rejected">>, <<"backward", "stopped">>}

ExtendOver == xs_pc \in {"accepted", "rejected", "stopped"}

\* C26 (amended): for each seed, extend passes through the states in the
\* order Extending-Backward, then Extending-Forward, then Re-scoring, then
\* exactly one of Accepted or Rejected, and never revisits a state; the call
\* comes to its end.
C26_BackwardThenForward ==
    /\ [][xs_pc' # xs_pc => <<xs_pc, xs_pc'>> \in OrderInCode]_vars
    /\ [](xs_pc \in {"accepted", "rejected"} => Len(ext_out) = 1)
    /\ <>ExtendOver

\* a call that extended the seed backward, then forward, and accepted the
\* extension
C26_Witness ==
    /\ xs_pc = "accepted"
    /\ xs_back_ext > 0
    /\ xs_fwd_ext > 0
    /\ ext_out # <<TheSeed>>

\* C26 as stated: the states are passed in the order Extending-Forward,
\* Extending-Backward, Re-scoring, then Accepted or Rejected.
C26_AsStated ==
    [][xs_pc' # xs_pc => <<xs_pc, xs_pc'>> \in OrderAsStated]_vars

\* the two token ranges of a pair have the same length and the same
\* normalized hash at every position
NormalizedRangesMatch(pair) ==
    /\ pair.location_a.token_count = pair.location_b.token_count
    /\ \A i \in 1..pair.location_a.token_count :
           TokensAt(pair.location_a)[pair.location_a.token_start + i].normalized_hash
               = TokensAt(pair.location_b)[pair.location_b.token_start + i].normalized_hash

\* C27: with the index built from normalized hashes, every pair that the
\* merge and the size filter hand to the classification has two token
\* ranges of equal length whose normalized hashes match at every position.
C27_ClassifiedPairsMatchNormalized ==
    (pc = "filtered" /\ config_.detect_type2) =>
        \A n \in DOMAIN pairs : NormalizedRangesMatch(pairs[n])

\* an iteration after which the same loop is still running has moved a
\* position: toward 0 in extend_backward, toward the end of its array in
\* extend_forward and in alignment_similarity
IterationAdvances ==
    /\ (xs_pc = "backward" /\ xs_pc' = "backward") =>
           (xs_pos_a' < xs_pos_a /\ xs_pos_b' < xs_pos_b /\ xs_pos_a' >= 0 /\ xs_pos_b' >= 0)
    /\ (xs_pc \in {"forward", "rescoring"} /\ xs_pc' = xs_pc) =>
           /\ xs_pos_a' >= xs_pos_a
           /\ xs_pos_b' >= xs_pos_b
           /\ xs_pos_a' + xs_pos_b' > xs_pos_a + xs_pos_b
           /\ xs_pos_a' <= Len(TokensA)
           /\ xs_pos_b' <= Len(TokensB)

\* C28: for every pair of token arrays, every seed and every max_gap >= 0
\* and lookahead >= 0, extend_backward, extend_forward and
\* alignment_similarity terminate: every iteration of their loops moves a
\* position toward the bound of its array (toward 0 when stepping backward)
\* or leaves the loop.
C28_ExtensionTerminates ==
    /\ [][IterationAdvances]_vars
    /\ (xs_pc = "backward") ~> (xs_pc \in {"forward", "stopped"})
    /\ (xs_pc = "forward") ~> (xs_pc = "rescoring")
    /\ (xs_pc = "rescoring") ~> (xs_pc \in {"accepted", "rejected"})

\* a call whose three loops have all run and ended, the last one over
\* tokens that do not all match
C28_Witness ==
    /\ xs_pc \in {"accepted", "rejected"}
    /\ xs_back_ext >= 1
    /\ xs_fwd_ext >= 1
    /\ xs_matches < Max2(WindowCountA, WindowCountB)

\* ------------------------------------------------------------------------
\* The arithmetic of the rolling hash on 32-bit token hashes
\* ------------------------------------------------------------------------
Below32(tok) == tok[5] = 0 /\ tok[6] = 0 /\ tok[7] = 0 /\ tok[8] = 0

TokensBelow32 == \A n \in DOMAIN token_hashes : Below32(token_hashes[n])

InHashRange(hash) == 0 <= hash /\ hash < MOD

\* hash * BASE + token_hash is exact in 64 bits
HornerStepExact(hash, tok) ==
    /\ ~Wraps(MulFull(ToU64(hash), ToU64(BASE)))
    /\ ~Wraps(AddFull(U64Mul(ToU64(hash), ToU64(BASE)), tok))

\* the products of the constructor's loop
ConstructorExact ==
    /\ \A i \in 1..(window_size_ - 1) :
           /\ ~Wraps(MulFull(ToU64(BasePower(i)), ToU64(BASE)))
           /\ InHashRange(BasePower(i + 1))
    /\ InHashRange(base_power_)

\* the product, the differences and the sum of the push that comes next
NextPushExact ==
    rh_i < Len(token_hashes) =>
        LET full == Len(window_) >= window_size_
            old_contribution == U64Mod(U64Mul(window_[1], ToU64(base_power_)))
            hash1 == IF full THEN WithoutOldest(hash_, old_contribution) ELSE hash_
        IN  /\ full => /\ ~Wraps(MulFull(window_[1], ToU64(base_power_)))
                       /\ InHashRange(old_contribution)
                       /\ InHashRange(hash1)
            /\ HornerStepExact(hash1, token_hashes[rh_i + 1])

\* compute_hash on every prefix of the sequence
ComputeHashExact ==
    \A n \in 1..Len(token_hashes) :
        /\ HornerStepExact(compute_hash(SubSeq(token_hashes, 1, n - 1)), token_hashes[n])
        /\ InHashRange(compute_hash(SubSeq(token_hashes, 1, n)))

\* C29: for every window size k >= 1 and token hashes below 2^32, no
\* product, sum or difference computed in RollingHash's constructor, in push
\* or in compute_hash leaves the unsigned 64-bit range, and every hash
\* returned is in [0, MOD).
C29_NoWrapBelow32 ==
    TokensBelow32 =>
        /\ ConstructorExact
        /\ NextPushExact
        /\ ComputeHashExact
        /\ InHashRange(hash_)
        /\ \A n \in DOMAIN rh_result : InHashRange(rh_result[n][2])

\* a hasher that has slid its full window over a token hash of 2^32 - 1, the
\* hash being below the contribution it takes off next
C29_Witness ==
    /\ TokensBelow32
    /\ Len(rh_result) >= 2
    /\ \E n \in DOMAIN token_hashes : token_hashes[n] = U32Max
    /\ rh_i < Len(token_hashes)
    /\ hash_ < U64Mod(U64Mul(window_[1], ToU64(base_power_)))

\* by how much the pair returned starts before the seed and is longer than
\* the seed, on each side
StartMovedA == TheSeed.location_a.token_start - Returned.location_a.token_start
StartMovedB == TheSeed.location_b.token_start - Returned.location_b.token_start
CountGrownA == Returned.location_a.token_count - TheSeed.location_a.token_count
CountGrownB == Returned.location_b.token_count - TheSeed.location_b.token_count

\* C30: the pair extend returns starts on neither side after the seed, its
\* two starts lie before the seed's by the same number of tokens, and its
\* two token counts exceed the seed's by the same number of tokens, zero or
\* more, also when the extension skipped gap tokens on one side only.
C30_BothSidesChangeAlike ==
    xs_pc \in {"accepted", "rejected"} =>
        /\ StartMovedA >= 0
        /\ StartMovedB >= 0
        /\ StartMovedA = StartMovedB
        /\ CountGrownA = CountGrownB
        /\ CountGrownA >= 0

\* an accepted extension whose forward part counted tokens it reached only
\* by skipping a gap token, on arrays of different lengths
C30_Witness ==
    /\ xs_pc = "accepted"
    /\ Returned # TheSeed
    /\ CountGrownA >= 1
    /\ Len(TokensA) # Len(TokensB)
    /\ xs_fwd_ext > extend_forward(TokensA, SeedEndA, TokensB, SeedEndB,
                                   [ext_cfg EXCEPT !.max_gap = 0], 0)

====
